---- MODULE Spec2Model ----
(***************************************************************************)
(* Model of the grey-background remover of remove-grey-bg.js: the pixel    *)
(* classifier, the border-seeded flood fill, the density shadow cleanup,   *)
(* the largest-blob selection and the edge feathering, run in the order of *)
(* removeBackground on one raster buffer.                                  *)
(***************************************************************************)
EXTENDS Integers, Sequences, FiniteSets, TLC

\* ---------------------------------------------------------------------------
\* Bounds of the model
\* ---------------------------------------------------------------------------
\* Free-form images: every width x height with at most this many pixels,
\* every pixel drawn from FreePalette.
MaxPixels == 9

\* ---------------------------------------------------------------------------
\* Arithmetic helpers (Math.abs, Math.max, Math.min)
\* ---------------------------------------------------------------------------
Abs(a) == IF a < 0 THEN -a ELSE a

Max2(a, b) == IF a >= b THEN a ELSE b

Min2(a, b) == IF a <= b THEN a ELSE b

\* ---------------------------------------------------------------------------
\* isGreyPixel (the classifier).  brightness = (r+g+b)/3 <= 185 is compared
\* on the sum, which is exact: (r+g+b)/3 <= 185 <=> r+g+b <= 555.
\* ---------------------------------------------------------------------------
GreyMaxDiff == 50

GreyBrightnessMax == 185

\* Mutant: a spread of exactly the limit is accepted.
isGreyPixel_SpreadInclusive(r, g, b) ==
    LET maxDiff == Max2(Max2(Abs(r - g), Abs(g - b)), Abs(r - b))
    IN  maxDiff <= GreyMaxDiff /\ (r + g + b) <= 3 * GreyBrightnessMax

isGreyPixel(r, g, b) ==
    LET maxDiff == Max2(Max2(Abs(r - g), Abs(g - b)), Abs(r - b))
    IN  maxDiff < GreyMaxDiff /\ (r + g + b) <= 3 * GreyBrightnessMax

\* ---------------------------------------------------------------------------
\* Colours of the input images (r, g, b)
\* ---------------------------------------------------------------------------
Grey == <<112, 112, 112>>

Bright == <<250, 240, 225>>

Dark == <<150, 60, 40>>

Pale == <<175, 175, 175>>

\* A coloured pixel whose brightness is exactly brightnessMax.
Shade == <<230, 150, 100>>

\* ---------------------------------------------------------------------------
\* floodFillBackground
\* ---------------------------------------------------------------------------
\* Mutant: the seeds without the right column.
FillSeeds_NoRightColumn(w, h) ==
    [k \in 1..(2 * w) |->
        IF k % 2 = 1 THEN (k - 1) \div 2 ELSE (h - 1) * w + (k - 2) \div 2]
    \o
    [k \in 1..Max2(0, h - 2) |-> k * w]

\* The seed queue, in the order the two for loops push it.
FillSeeds(w, h) ==
    [k \in 1..(2 * w) |->
        IF k % 2 = 1 THEN (k - 1) \div 2 ELSE (h - 1) * w + (k - 2) \div 2]
    \o
    [k \in 1..Max2(0, 2 * (h - 2)) |->
        IF k % 2 = 1 THEN ((k + 1) \div 2) * w
                     ELSE (k \div 2) * w + (w - 1)]

\* Mutant: the neighbour above is never pushed.
NeighbourPushes_NoUp(idx, w, h) ==
    LET x == idx % w
        y == idx \div w
    IN  (IF x > 0 THEN <<idx - 1>> ELSE <<>>)
        \o (IF x < w - 1 THEN <<idx + 1>> ELSE <<>>)
        \o (IF y < h - 1 THEN <<idx + w>> ELSE <<>>)

\* The four neighbour pushes of one expanded pixel, in source order.
NeighbourPushes(idx, w, h) ==
    LET x == idx % w
        y == idx \div w
    IN  (IF x > 0 THEN <<idx - 1>> ELSE <<>>)
        \o (IF x < w - 1 THEN <<idx + 1>> ELSE <<>>)
        \o (IF y > 0 THEN <<idx - w>> ELSE <<>>)
        \o (IF y < h - 1 THEN <<idx + w>> ELSE <<>>)

FillStart(w, h) ==
    [queue |-> FillSeeds(w, h),
     visited |-> [i \in 0..(w * h - 1) |-> 0],
     isBackground |-> [i \in 0..(w * h - 1) |-> 0]]

\* One iteration of the while loop: shift the queue, skip or visit.
FillStep(s, d, w, h, ch) ==
    LET idx == Head(s.queue)
        rest == Tail(s.queue)
        pi == idx * ch
    IN  IF idx < 0 \/ idx >= w * h \/ s.visited[idx] = 1
        THEN [s EXCEPT !.queue = rest]
        ELSE IF ~isGreyPixel(d[pi], d[pi + 1], d[pi + 2])
        THEN [s EXCEPT !.queue = rest, !.visited[idx] = 1]
        ELSE [queue |-> rest \o NeighbourPushes(idx, w, h),
              visited |-> [s.visited EXCEPT ![idx] = 1],
              isBackground |-> [s.isBackground EXCEPT ![idx] = 1]]

\* The while loop.  FillSteps runs at most n iterations, halving n so that
\* the evaluation nests to depth log n; FillRun repeats it until the queue is
\* empty, which is when the loop ends.
RECURSIVE FillSteps(_, _, _, _, _, _)
FillSteps(s, n, d, w, h, ch) ==
    IF s.queue = <<>> \/ n = 0 THEN s
    ELSE IF n = 1 THEN FillStep(s, d, w, h, ch)
    ELSE FillSteps(FillSteps(s, n \div 2, d, w, h, ch), n - n \div 2,
                   d, w, h, ch)

RECURSIVE FillRun(_, _, _, _, _)
FillRun(s, d, w, h, ch) ==
    IF s.queue = <<>> THEN s
    ELSE FillRun(FillSteps(s, Len(s.queue), d, w, h, ch), d, w, h, ch)

floodFillBackground(d, w, h, ch) ==
    FillRun(FillStart(w, h), d, w, h, ch).isBackground

\* ---------------------------------------------------------------------------
\* densityShadowCleanup
\* ---------------------------------------------------------------------------
DensityRadius == 12

\* transparencyThreshold = 0.45, kept as a percentage: transparent / total >
\* 0.45 <=> 100 * transparent > 45 * total (total is 113 whenever a pixel is
\* scanned, so the quotient never equals 0.45).
TransparencyPercent == 45

\* brightness = sum / 3 > 160 <=> sum > 480.
ShadowBrightnessMax == 160

DensityPasses == 5

\* The sampled offsets: -radius..radius in steps of 2, inside the circle.
RingOffsets ==
    LET steps == {-DensityRadius + 2 * k : k \in 0..DensityRadius}
    IN  {o \in steps \X steps :
            o[1] * o[1] + o[2] * o[2] <= DensityRadius * DensityRadius}

\* Mutant: the scan does not skip the pixels that are background already.
DensityToRemove_NoMaskTest(d, mask, w, h, ch) ==
    {idx \in 0..(w * h - 1) :
        LET x == idx % w
            y == idx \div w
            pi == idx * ch
        IN  /\ y >= DensityRadius /\ y < h - DensityRadius
            /\ x >= DensityRadius /\ x < w - DensityRadius
            /\ ~(d[pi] + d[pi + 1] + d[pi + 2] > 3 * ShadowBrightnessMax)
            /\ LET total == Cardinality(RingOffsets)
                   transparent == Cardinality({o \in RingOffsets :
                       mask[(y + o[2]) * w + (x + o[1])] = 1})
               IN  100 * transparent > TransparencyPercent * total}

\* Mutant: the scan does not skip the pixels brighter than brightnessMax.
DensityToRemove_NoBrightnessTest(d, mask, w, h, ch) ==
    {idx \in 0..(w * h - 1) :
        LET x == idx % w
            y == idx \div w
        IN  /\ y >= DensityRadius /\ y < h - DensityRadius
            /\ x >= DensityRadius /\ x < w - DensityRadius
            /\ mask[idx] = 0
            /\ LET total == Cardinality(RingOffsets)
                   transparent == Cardinality({o \in RingOffsets :
                       mask[(y + o[2]) * w + (x + o[1])] = 1})
               IN  100 * transparent > TransparencyPercent * total}

\* toRemove of one pass, computed from the mask as it is when the pass starts.
DensityToRemove(d, mask, w, h, ch) ==
    {idx \in 0..(w * h - 1) :
        LET x == idx % w
            y == idx \div w
            pi == idx * ch
        IN  /\ y >= DensityRadius /\ y < h - DensityRadius
            /\ x >= DensityRadius /\ x < w - DensityRadius
            /\ mask[idx] = 0
            /\ ~(d[pi] + d[pi + 1] + d[pi + 2] > 3 * ShadowBrightnessMax)
            /\ LET total == Cardinality(RingOffsets)
                   transparent == Cardinality({o \in RingOffsets :
                       mask[(y + o[2]) * w + (x + o[1])] = 1})
               IN  100 * transparent > TransparencyPercent * total}

\* The test the scan applies to the pixel idx of the band: not background,
\* not brighter than brightnessMax, more than 45% of the ring transparent.
ShadowCandidate(d, mask, w, h, ch, idx) ==
    LET x == idx % w
        y == idx \div w
        pi == idx * ch
        total == Cardinality(RingOffsets)
        transparent == Cardinality({o \in RingOffsets :
                           mask[(y + o[2]) * w + (x + o[1])] = 1})
    IN  /\ mask[idx] = 0
        /\ ~(d[pi] + d[pi + 1] + d[pi + 2] > 3 * ShadowBrightnessMax)
        /\ 100 * transparent > TransparencyPercent * total

\* The pixels the two for loops visit, in their order: rows radius to
\* height - radius - 1, in each row columns radius to width - radius - 1.
ScanOrder(w, h) ==
    LET cols == Max2(0, w - 2 * DensityRadius)
        rows == Max2(0, h - 2 * DensityRadius)
    IN  [k \in 1..(cols * rows) |->
            (DensityRadius + ((k - 1) \div cols)) * w
                + DensityRadius + ((k - 1) % cols)]

\* Mutant: a pixel is written to the mask as soon as the scan finds it.
RECURSIVE DensityScanFrom_CommitInScan(_, _, _, _, _, _, _, _)
DensityScanFrom_CommitInScan(k, order, toRemove, d, mask, w, h, ch) ==
    IF k > Len(order) THEN [toRemove |-> toRemove, isBackground |-> mask]
    ELSE IF ShadowCandidate(d, mask, w, h, ch, order[k])
    THEN DensityScanFrom_CommitInScan(k + 1, order,
                                      Append(toRemove, order[k]), d,
                                      [mask EXCEPT ![order[k]] = 1], w, h, ch)
    ELSE DensityScanFrom_CommitInScan(k + 1, order, toRemove, d, mask,
                                      w, h, ch)

\* The scan of one pass from position k of the order on: toRemove grows, the
\* mask is only read.
RECURSIVE DensityScanFrom(_, _, _, _, _, _, _, _)
DensityScanFrom(k, order, toRemove, d, mask, w, h, ch) ==
    IF k > Len(order) THEN [toRemove |-> toRemove, isBackground |-> mask]
    ELSE IF ShadowCandidate(d, mask, w, h, ch, order[k])
    THEN DensityScanFrom(k + 1, order, Append(toRemove, order[k]), d, mask,
                         w, h, ch)
    ELSE DensityScanFrom(k + 1, order, toRemove, d, mask, w, h, ch)

\* ---------------------------------------------------------------------------
\* keepLargestBlob
\* ---------------------------------------------------------------------------
\* The inner while loop: a stack (queue.pop()) of indices to label.
RECURSIVE BlobFlood(_, _, _, _, _, _, _)
BlobFlood(stack, blobId, size, cur, mask, w, h) ==
    IF stack = <<>> THEN [blobId |-> blobId, size |-> size]
    ELSE LET idx == stack[Len(stack)]
             rest == SubSeq(stack, 1, Len(stack) - 1)
         IN  IF idx < 0 \/ idx >= w * h \/ mask[idx] = 1 \/ blobId[idx] >= 0
             THEN BlobFlood(rest, blobId, size, cur, mask, w, h)
             ELSE BlobFlood(rest \o NeighbourPushes(idx, w, h),
                            [blobId EXCEPT ![idx] = cur], size + 1, cur,
                            mask, w, h)

\* The outer for loop from index i on: every i that is background or already
\* labelled is skipped, the first other one starts a new blob.
RECURSIVE BlobLabel(_, _, _, _, _, _)
BlobLabel(i, blobId, blobSizes, mask, w, h) ==
    LET open == {j \in i..(w * h - 1) : mask[j] = 0 /\ blobId[j] < 0}
    IN  IF open = {} THEN [blobId |-> blobId, blobSizes |-> blobSizes]
        ELSE LET j == CHOOSE m \in open : \A n \in open : m <= n
                 r == BlobFlood(<<j>>, blobId, 0, Len(blobSizes), mask, w, h)
             IN  BlobLabel(j + 1, r.blobId, Append(blobSizes, r.size),
                           mask, w, h)

\* Mutant: the comparison of the sizes is inverted.
RECURSIVE LargestFrom_Smallest(_, _, _)
LargestFrom_Smallest(b, largestBlob, blobSizes) ==
    IF b >= Len(blobSizes) THEN largestBlob
    ELSE LargestFrom_Smallest(b + 1,
                     IF blobSizes[b + 1] < blobSizes[largestBlob + 1]
                     THEN b ELSE largestBlob,
                     blobSizes)

\* Mutant: a later blob of the same size replaces the one found before.
RECURSIVE LargestFrom_LastTie(_, _, _)
LargestFrom_LastTie(b, largestBlob, blobSizes) ==
    IF b >= Len(blobSizes) THEN largestBlob
    ELSE LargestFrom_LastTie(b + 1,
                     IF blobSizes[b + 1] >= blobSizes[largestBlob + 1]
                     THEN b ELSE largestBlob,
                     blobSizes)

\* The loop that finds largestBlob (blob numbers start at 0, blobSizes[b] of
\* the source is blobSizes[b + 1] here).
RECURSIVE LargestFrom(_, _, _)
LargestFrom(b, largestBlob, blobSizes) ==
    IF b >= Len(blobSizes) THEN largestBlob
    ELSE LargestFrom(b + 1,
                     IF blobSizes[b + 1] > blobSizes[largestBlob + 1]
                     THEN b ELSE largestBlob,
                     blobSizes)

LargestBlob(blobSizes) == LargestFrom(1, 0, blobSizes)

\* Mutant: the mask is rebuilt from the removed blobs alone.
keepLargestBlob_Rebuild(mask, w, h) ==
    LET lab == BlobLabel(0, [i \in 0..(w * h - 1) |-> -1], <<>>, mask, w, h)
    IN  IF Len(lab.blobSizes) = 0
        THEN [isBackground |-> mask, extraRemoved |-> 0]
        ELSE LET largestBlob == LargestBlob(lab.blobSizes)
                 gone == {i \in 0..(w * h - 1) :
                             mask[i] = 0 /\ lab.blobId[i] # largestBlob}
             IN  [isBackground |->
                     [i \in 0..(w * h - 1) |-> IF i \in gone THEN 1 ELSE 0],
                  extraRemoved |-> Cardinality(gone)]

keepLargestBlob(mask, w, h) ==
    LET lab == BlobLabel(0, [i \in 0..(w * h - 1) |-> -1], <<>>, mask, w, h)
    IN  IF Len(lab.blobSizes) = 0
        THEN [isBackground |-> mask, extraRemoved |-> 0]
        ELSE LET largestBlob == LargestBlob(lab.blobSizes)
                 gone == {i \in 0..(w * h - 1) :
                             mask[i] = 0 /\ lab.blobId[i] # largestBlob}
             IN  [isBackground |->
                     [i \in 0..(w * h - 1) |-> IF i \in gone THEN 1 ELSE mask[i]],
                  extraRemoved |-> Cardinality(gone)]

\* ---------------------------------------------------------------------------
\* applyEdgeSmoothing
\* ---------------------------------------------------------------------------
FeatherRadius == 2

\* edgeDistance is kept squared: 0 on the mask, the least dx*dx + dy*dy over
\* the mask pixels of the (2 radius + 1)^2 window, FarDistance2 (the fill
\* value 999, squared) when the window holds none.
FarDistance2 == 999 * 999

EdgeDistance2(mask, w, h, radius, idx) ==
    LET x == idx % w
        y == idx \div w
        hits == {dx * dx + dy * dy : <<dx, dy>> \in
                    {o \in (-radius..radius) \X (-radius..radius) :
                        /\ x + o[1] >= 0 /\ x + o[1] < w
                        /\ y + o[2] >= 0 /\ y + o[2] < h
                        /\ mask[(y + o[2]) * w + (x + o[1])] = 1}}
    IN  IF mask[idx] = 1 THEN 0
        ELSE IF hits = {} THEN FarDistance2
        ELSE CHOOSE m \in hits : \A n \in hits : m <= n

\* Math.min(255, Math.round(Math.sqrt(d2) / radius * 255)): the integer k
\* with k - 1/2 <= 255 sqrt(d2) / radius < k + 1/2, by squaring.  (The
\* distances below the radius are 1 and sqrt 2; their Float32 values round to
\* the same integers.)
SmoothAlpha(d2, radius) ==
    LET k == CHOOSE n \in 0..(255 * radius) :
                /\ (2 * n - 1) * (2 * n - 1) * radius * radius <= 4 * 255 * 255 * d2
                /\ 4 * 255 * 255 * d2 < (2 * n + 1) * (2 * n + 1) * radius * radius
    IN  Min2(255, k)

\* Mutant: the write goes to the blue byte.
AlphaOffset_Blue == 3 - 1

\* data[pi + 3]: the alpha byte of a pixel.
AlphaOffset == 3

\* Mutant: no ramp, the pixels nearer than the radius are cleared as well.
applyEdgeSmoothing_HardEdge(d, mask, w, h, ch, radius) ==
    [data |->
        [k \in DOMAIN d |->
            IF k % ch # AlphaOffset THEN d[k]
            ELSE LET i == k \div ch
                     d2 == EdgeDistance2(mask, w, h, radius, i)
                 IN  IF mask[i] = 1 THEN 0
                     ELSE IF d2 < radius * radius THEN 0
                     ELSE d[k]],
     removedPixels |-> Cardinality({i \in 0..(w * h - 1) : mask[i] = 1})]

applyEdgeSmoothing(d, mask, w, h, ch, radius) ==
    [data |->
        [k \in DOMAIN d |->
            IF k % ch # AlphaOffset THEN d[k]
            ELSE LET i == k \div ch
                     d2 == EdgeDistance2(mask, w, h, radius, i)
                 IN  IF mask[i] = 1 THEN 0
                     ELSE IF d2 < radius * radius THEN SmoothAlpha(d2, radius)
                     ELSE d[k]],
     removedPixels |-> Cardinality({i \in 0..(w * h - 1) : mask[i] = 1})]

\* ---------------------------------------------------------------------------
\* Input files
\* ---------------------------------------------------------------------------
\* Plate images: a Grey canvas, a centred square plate, one centre pixel.
SmallSide == 5

BigExtra == 0

MaxPlate == 1

\* Alpha bytes of the RGBA inputs (translucent).
TranslucentAlphas == {100}

FreePalette == {Grey, Bright}

PlatePalette == {Grey, Bright, Dark, Pale}

\* A raw raster file: channels 3 (RGB) or 4 (RGBA, every alpha byte = alpha).
MkImage(w, h, ch, colour, alpha) ==
    [width |-> w, height |-> h, channels |-> ch,
     data |-> [k \in 0..(w * h * ch - 1) |->
                 IF k % ch = 3 THEN alpha ELSE colour[k \div ch][(k % ch) + 1]]]

FreeShapes ==
    {s \in (1..MaxPixels) \X (1..MaxPixels) : s[1] * s[2] <= MaxPixels}

FreeImages ==
    UNION {UNION {{MkImage(s[1], s[2], 3, c, 255)}
                  \cup {MkImage(s[1], s[2], 4, c, a) : a \in TranslucentAlphas} :
                     c \in [0..(s[1] * s[2] - 1) -> FreePalette]} :
           s \in FreeShapes}

PlateSides == {SmallSide, 2 * DensityRadius + 1 + BigExtra}

PlateColouring(side, half, plate, core) ==
    LET c == side \div 2
    IN  [i \in 0..(side * side - 1) |->
            LET x == i % side
                y == i \div side
            IN  IF x = c /\ y = c THEN core
                ELSE IF Abs(x - c) <= half /\ Abs(y - c) <= half THEN plate
                ELSE Grey]

PlateImages ==
    {MkImage(side, side, 3, PlateColouring(side, half, plate, core), 255) :
        side \in PlateSides, half \in 0..MaxPlate,
        plate \in PlatePalette, core \in PlatePalette}

\* Shadow strips: width 2 radius + 1, so that column `radius` is the only one
\* densityShadowCleanup scans.  The left half is Grey; the pixels the ring of
\* that column samples (even x, even y) are Bright dots on Grey, except a
\* chain of n Dark or Shade pixels, one every `radius` rows, and one Grey pixel two
\* rows above the first of them: each pass removes one pixel of the chain.
MaxChain == 5

StripColouring(w, h, n) ==
    [i \in 0..(w * h - 1) |->
        LET x == i % w
            y == i \div w
        IN  IF x % 2 = 1 \/ y % 2 = 1 \/ x < DensityRadius THEN Grey
            ELSE IF x = DensityRadius /\ y >= DensityRadius
                    /\ (y - DensityRadius) % DensityRadius = 0
                    /\ (y - DensityRadius) \div DensityRadius < n
                 THEN IF ((y - DensityRadius) \div DensityRadius) % 2 = 0
                      THEN Dark ELSE Shade
            ELSE IF x = DensityRadius /\ y = DensityRadius - 2 THEN Grey
            ELSE Bright]

StripImages ==
    {LET w == 2 * DensityRadius + 1
         h == 2 * DensityRadius + 1 + DensityRadius * (n - 1)
     IN  MkImage(w, h, 3, StripColouring(w, h, n), 255) :
            n \in (MaxChain - 1)..MaxChain}

\* A file that cannot be decoded (absent or corrupt).
CorruptFile == [width |-> 0, height |-> 0, channels |-> 0, data |-> <<>>]

InputFiles == FreeImages \cup PlateImages \cup StripImages \cup {CorruptFile}

\* ---------------------------------------------------------------------------
\* removeBackground as a state machine
\* ---------------------------------------------------------------------------
VARIABLES
    pc,             \* position in removeBackground
    inFile,         \* the file at inputPath
    outFile,        \* the file at outputPath
    width, height, channels,
    data,           \* the raw buffer
    isBackground,   \* the background mask
    pass,           \* densityShadowCleanup's pass counter
    shadowCleaned, extraRemoved, removedPixels,
    result,         \* the value removeBackground returns
    baseDir,        \* main: the day directories under public/images
    mpc,            \* main: position in main
    dayIdx,         \* main: position of the loop over days
    files,          \* main: the .png entries of the current day
    fileIdx,        \* main: position of the loop over files
    processed, errors,
    invoked,        \* main: the files removeBackground was called on
    rgb,            \* the arguments of a call of isGreyPixel
    verdict,        \* what the call returned
    calls,          \* concurrent invocations: the locals of each
    heap,           \* concurrent invocations: the buffers sharp allocated
    walk,           \* the two flood fills, one loop iteration at a time
    merge,          \* a call of mergeItems, one line at a time
    upd,            \* runs of smart-update's main
    rev,            \* review-images' loop over one image
    job             \* the generation loops of the three scripts

pipeVars == <<pc, inFile, outFile, width, height, channels, data,
              isBackground, pass, shadowCleaned, extraRemoved, removedPixels,
              result>>

mainVars == <<baseDir, mpc, dayIdx, files, fileIdx, processed, errors,
              invoked>>

greyVars == <<rgb, verdict>>

concVars == <<calls, heap>>

auxVars == <<walk, merge, upd, rev, job>>

\* What a run of removeBackground on its own leaves alone.
otherVars == <<mainVars, greyVars, concVars, auxVars>>

vars == <<pipeVars, otherVars>>

\* main has not been entered.
MainIdle ==
    /\ baseDir = <<>>
    /\ mpc = "idle"
    /\ dayIdx = 0
    /\ files = <<>>
    /\ fileIdx = 0
    /\ processed = 0 /\ errors = 0
    /\ invoked = <<>>

\* isGreyPixel has not been called on its own.
GreyIdle ==
    /\ rgb = <<0, 0, 0>>
    /\ verdict = [returned |-> FALSE, grey |-> FALSE]

\* No concurrent invocations.
ConcIdle ==
    /\ calls = <<>>
    /\ heap = <<>>

\* None of the other scripts' loops has been entered.
WalkIdle == walk = <<>>
MergeIdle == merge = <<>>
UpdIdle == upd = <<>>
RevIdle == rev = <<>>
JobIdle == job = <<>>

AuxIdle == WalkIdle /\ MergeIdle /\ UpdIdle /\ RevIdle /\ JobIdle

NoFile == [width |-> 0, height |-> 0, complete |-> FALSE]

NoResult == [success |-> FALSE, error |-> "pending", allRemoved |-> 0,
             totalPixels |-> 0]

OutputSize == 512

\* The dimensions of a w x h raster scaled to fit inside a box x box square
\* with its aspect ratio kept (the longer side becomes box, the other one is
\* rounded and at least 1).
ResizeInside(w, h, box) ==
    IF w >= h
    THEN [width |-> box,
          height |-> Max2(1, (2 * h * box + w) \div (2 * w))]
    ELSE [width |-> Max2(1, (2 * w * box + h) \div (2 * h)),
          height |-> box]

\* Mutant: the scaled raster is not padded (fit: 'inside').
ResizeContain_Inside(w, h, box) == ResizeInside(w, h, box)

\* resize(512, 512, {fit: 'contain', background: transparent}): the raster
\* is scaled to fit inside the box and padded on both sides, with the
\* background, to the box.
ResizeContain(w, h, box) ==
    LET in == ResizeInside(w, h, box)
        left == (box - in.width) \div 2
        right == box - in.width - left
        top == (box - in.height) \div 2
        bottom == box - in.height - top
    IN  [width |-> left + in.width + right,
         height |-> top + in.height + bottom]

Init ==
    /\ inFile \in InputFiles
    /\ pc = "decode"
    /\ outFile = NoFile
    /\ width = 0 /\ height = 0 /\ channels = 0
    /\ data = <<>>
    /\ isBackground = <<>>
    /\ pass = 0
    /\ shadowCleaned = 0 /\ extraRemoved = 0 /\ removedPixels = 0
    /\ result = NoResult
    /\ MainIdle
    /\ GreyIdle
    /\ ConcIdle
    /\ AuxIdle

\* removeBackground has not been entered.
PipeIdle ==
    /\ pc = "idle"
    /\ inFile = CorruptFile
    /\ outFile = NoFile
    /\ width = 0 /\ height = 0 /\ channels = 0
    /\ data = <<>>
    /\ isBackground = <<>>
    /\ pass = 0
    /\ shadowCleaned = 0 /\ extraRemoved = 0 /\ removedPixels = 0
    /\ result = NoResult

\* ensureAlpha: an alpha byte of 255 is added to every pixel of a 3-channel
\* raster, a 4-channel raster is taken as it is.
EnsureAlpha(f) ==
    [k \in 0..(f.width * f.height * 4 - 1) |->
        IF f.channels = 4 THEN f.data[k]
        ELSE IF k % 4 = 3 THEN 255
        ELSE f.data[(k \div 4) * f.channels + (k % 4)]]

\* sharp(inputPath).raw().ensureAlpha().toBuffer().
Decode ==
    /\ pc = "decode"
    /\ inFile # CorruptFile
    /\ width' = inFile.width
    /\ height' = inFile.height
    /\ channels' = 4
    /\ data' = EnsureAlpha(inFile)
    /\ pc' = "fill"
    /\ UNCHANGED <<inFile, outFile, isBackground, pass, shadowCleaned,
                   extraRemoved, removedPixels, result>>
    /\ UNCHANGED otherVars

\* The decode throws: the catch block returns the failure.
DecodeFail ==
    /\ pc = "decode"
    /\ inFile = CorruptFile
    /\ result' = [NoResult EXCEPT !.error = "decode"]
    /\ pc' = "done"
    /\ UNCHANGED <<inFile, outFile, width, height, channels, data,
                   isBackground, pass, shadowCleaned, extraRemoved,
                   removedPixels>>
    /\ UNCHANGED otherVars

\* Step 1: isBackground = floodFillBackground(data, width, height, channels).
FloodFill ==
    /\ pc = "fill"
    /\ isBackground' = floodFillBackground(data, width, height, channels)
    /\ pc' = "cleanup"
    /\ UNCHANGED <<inFile, outFile, width, height, channels, data, pass,
                   shadowCleaned, extraRemoved, removedPixels, result>>
    /\ UNCHANGED otherVars

\* Mutant: a pass that queues nothing does not end the loop.
DensityPass_NoBreak ==
    /\ pc = "cleanup"
    /\ pass < DensityPasses
    /\ LET toRemove == DensityToRemove(data, isBackground, width, height,
                                       channels)
       IN  /\ isBackground' = [i \in DOMAIN isBackground |->
                                  IF i \in toRemove THEN 1
                                  ELSE isBackground[i]]
           /\ shadowCleaned' = shadowCleaned + Cardinality(toRemove)
           /\ pass' = pass + 1
           /\ pc' = "cleanup"
    /\ UNCHANGED <<inFile, outFile, width, height, channels, data,
                   extraRemoved, removedPixels, result>>
    /\ UNCHANGED otherVars

\* One pass of densityShadowCleanup: scan, then break or commit toRemove.
DensityPass ==
    /\ pc = "cleanup"
    /\ pass < DensityPasses
    /\ LET toRemove == DensityToRemove(data, isBackground, width, height,
                                       channels)
       IN  IF toRemove = {}
           THEN /\ pc' = "blob"
                /\ UNCHANGED <<isBackground, shadowCleaned, pass>>
           ELSE /\ isBackground' = [i \in DOMAIN isBackground |->
                                      IF i \in toRemove THEN 1
                                      ELSE isBackground[i]]
                /\ shadowCleaned' = shadowCleaned + Cardinality(toRemove)
                /\ pass' = pass + 1
                /\ pc' = "cleanup"
    /\ UNCHANGED <<inFile, outFile, width, height, channels, data,
                   extraRemoved, removedPixels, result>>
    /\ UNCHANGED otherVars

\* The for loop ends after the last pass.
DensityReturn ==
    /\ pc = "cleanup"
    /\ pass >= DensityPasses
    /\ pc' = "blob"
    /\ UNCHANGED <<inFile, outFile, width, height, channels, data,
                   isBackground, pass, shadowCleaned, extraRemoved,
                   removedPixels, result>>
    /\ UNCHANGED otherVars

KeepLargestBlob ==
    /\ pc = "blob"
    /\ LET r == keepLargestBlob(isBackground, width, height)
       IN  /\ isBackground' = r.isBackground
           /\ extraRemoved' = r.extraRemoved
    /\ pc' = "smooth"
    /\ UNCHANGED <<inFile, outFile, width, height, channels, data,
                   pass, shadowCleaned, removedPixels, result>>
    /\ UNCHANGED otherVars

ApplyEdgeSmoothing ==
    /\ pc = "smooth"
    /\ LET r == applyEdgeSmoothing(data, isBackground, width, height,
                                   channels, FeatherRadius)
       IN  /\ data' = r.data
           /\ removedPixels' = r.removedPixels
    /\ pc' = "encode"
    /\ UNCHANGED <<inFile, outFile, width, height, channels, isBackground, pass, shadowCleaned, extraRemoved, result>>
    /\ UNCHANGED otherVars

\* resize(512, 512).png().toFile(outputPath) succeeds: the file is written
\* and the success result is returned.
EncodeOk ==
    /\ pc = "encode"
    /\ outFile' = [width |-> ResizeContain(width, height, OutputSize).width,
                   height |-> ResizeContain(width, height, OutputSize).height,
                   complete |-> TRUE]
    /\ result' = [success |-> TRUE, error |-> "none",
                  allRemoved |-> removedPixels + extraRemoved + shadowCleaned,
                  totalPixels |-> width * height]
    /\ pc' = "done"
    /\ UNCHANGED <<inFile, width, height, channels, data, isBackground, pass, shadowCleaned, extraRemoved,
                   removedPixels>>
    /\ UNCHANGED otherVars

\* toFile rejects (a write error): the catch block returns the failure.  What
\* the library leaves at outputPath is not decided by this code.
EncodeFail ==
    /\ pc = "encode"
    /\ outFile' \in
          {outFile,
           [width |-> ResizeContain(width, height, OutputSize).width,
            height |-> ResizeContain(width, height, OutputSize).height,
            complete |-> FALSE]}
    /\ result' = [NoResult EXCEPT !.error = "encode"]
    /\ pc' = "done"
    /\ UNCHANGED <<inFile, width, height, channels, data, isBackground, pass, shadowCleaned, extraRemoved,
                   removedPixels>>
    /\ UNCHANGED otherVars

Next ==
    \/ Decode
    \/ DecodeFail
    \/ FloodFill
    \/ DensityPass
    \/ DensityReturn
    \/ KeepLargestBlob
    \/ ApplyEdgeSmoothing
    \/ EncodeOk
    \/ EncodeFail

Spec == Init /\ [][Next]_vars

\* ===========================================================================
\* removeBackground as one call

RECURSIVE DensityLoop(_, _, _, _, _, _, _)
\* The for loop of densityShadowCleanup from pass p on.
DensityLoop(p, mask, totalRemoved, d, w, h, ch) ==
    IF p >= DensityPasses
    THEN [isBackground |-> mask, totalRemoved |-> totalRemoved]
    ELSE LET toRemove == DensityToRemove(d, mask, w, h, ch)
         IN  IF toRemove = {}
             THEN [isBackground |-> mask, totalRemoved |-> totalRemoved]
             ELSE DensityLoop(p + 1,
                              [i \in DOMAIN mask |->
                                  IF i \in toRemove THEN 1 ELSE mask[i]],
                              totalRemoved + Cardinality(toRemove),
                              d, w, h, ch)

densityShadowCleanup(d, mask, w, h, ch) == DensityLoop(0, mask, 0, d, w, h, ch)

\* Steps 1 to 4 of removeBackground, which run without suspension.
PixelStages(d, w, h, ch) ==
    LET filled == floodFillBackground(d, w, h, ch)
        cleaned == densityShadowCleanup(d, filled, w, h, ch)
        kept == keepLargestBlob(cleaned.isBackground, w, h)
        smoothed == applyEdgeSmoothing(d, kept.isBackground, w, h, ch,
                                       FeatherRadius)
    IN  [data |-> smoothed.data,
         isBackground |-> kept.isBackground,
         allRemoved |-> smoothed.removedPixels + kept.extraRemoved
                            + cleaned.totalRemoved]

\* What removeBackground returns for the file f; encodes says whether the
\* final toFile resolves.
removeBackgroundResult(f, encodes) ==
    IF f = CorruptFile THEN [NoResult EXCEPT !.error = "decode"]
    ELSE IF ~encodes THEN [NoResult EXCEPT !.error = "encode"]
    ELSE [success |-> TRUE, error |-> "none",
          allRemoved |-> PixelStages(EnsureAlpha(f), f.width, f.height,
                                     4).allRemoved,
          totalPixels |-> f.width * f.height]

\* ===========================================================================
\* isGreyPixel called on its own

\* Bound: how far around each landmark the channel values are drawn.
GreyWindow == 2

\* The channel values: those within GreyWindow of 0, of the spread limit, of
\* the brightness limit less the spread limit, of the brightness limit and
\* of 255.
ChannelSamples ==
    {v \in 0..255 :
        \E m \in {0, GreyMaxDiff, GreyBrightnessMax - GreyMaxDiff,
                  GreyBrightnessMax, 255} : Abs(v - m) <= GreyWindow}

InitGrey ==
    /\ rgb \in ChannelSamples \X ChannelSamples \X ChannelSamples
    /\ verdict = [returned |-> FALSE, grey |-> FALSE]
    /\ PipeIdle
    /\ MainIdle
    /\ ConcIdle
    /\ AuxIdle

\* isGreyPixel(r, g, b) is called and returns.
Classify ==
    /\ verdict' = [returned |-> TRUE,
                   grey |-> isGreyPixel(rgb[1], rgb[2], rgb[3])]
    /\ UNCHANGED <<rgb, pipeVars, mainVars, concVars, auxVars>>

NextGrey == Classify

SpecGrey == InitGrey /\ [][NextGrey]_vars

\* ===========================================================================
\* The other background removers of the repository

\* for (...) if (isBg[i]) data[i * channels + 3] = 0: the hard cut both other
\* removers apply.
ApplyTransparency(d, mask, ch) ==
    [k \in DOMAIN d |->
        IF k % ch = AlphaOffset /\ mask[k \div ch] = 1 THEN 0 ELSE d[k]]

\* smart-update.js removeBgSingle on a decodable file: its flood fill and its
\* largest-blob loop are copies of floodFillBackground (with isGreyPixel's
\* test inline) and of keepLargestBlob; it has no density cleanup and no
\* edge smoothing; it saves with the same resize.
removeBgSingle(f) ==
    LET d == EnsureAlpha(f)
        isBg == floodFillBackground(d, f.width, f.height, 4)
        kept == keepLargestBlob(isBg, f.width, f.height).isBackground
    IN  [data |-> ApplyTransparency(d, kept, 4),
         isBackground |-> kept,
         width |-> ResizeContain(f.width, f.height, OutputSize).width,
         height |-> ResizeContain(f.width, f.height, OutputSize).height]

ReviewMaxDiff == 30

ReviewBrightnessMin == 60

ReviewBrightnessMax == 170

\* review-images.js: maxD < 30 && br >= 60 && br <= 170.
isReviewGrey(r, g, b) ==
    LET maxD == Max2(Max2(Abs(r - g), Abs(g - b)), Abs(r - b))
    IN  /\ maxD < ReviewMaxDiff
        /\ (r + g + b) >= 3 * ReviewBrightnessMin
        /\ (r + g + b) <= 3 * ReviewBrightnessMax

\* One iteration of the while loop of review-images.js.
ReviewFillStep(s, d, w, h, ch) ==
    LET idx == Head(s.queue)
        rest == Tail(s.queue)
        pi == idx * ch
    IN  IF idx < 0 \/ idx >= w * h \/ s.visited[idx] = 1
        THEN [s EXCEPT !.queue = rest]
        ELSE IF ~isReviewGrey(d[pi], d[pi + 1], d[pi + 2])
        THEN [s EXCEPT !.queue = rest, !.visited[idx] = 1]
        ELSE [queue |-> rest \o NeighbourPushes(idx, w, h),
              visited |-> [s.visited EXCEPT ![idx] = 1],
              isBackground |-> [s.isBackground EXCEPT ![idx] = 1]]

RECURSIVE ReviewFillSteps(_, _, _, _, _, _)
ReviewFillSteps(s, n, d, w, h, ch) ==
    IF s.queue = <<>> \/ n = 0 THEN s
    ELSE IF n = 1 THEN ReviewFillStep(s, d, w, h, ch)
    ELSE ReviewFillSteps(ReviewFillSteps(s, n \div 2, d, w, h, ch),
                         n - n \div 2, d, w, h, ch)

RECURSIVE ReviewFillRun(_, _, _, _, _)
ReviewFillRun(s, d, w, h, ch) ==
    IF s.queue = <<>> THEN s
    ELSE ReviewFillRun(ReviewFillSteps(s, Len(s.queue), d, w, h, ch),
                       d, w, h, ch)

\* review-images.js removeBackground on a decodable file: a flood fill with
\* its own classifier, the hard cut, and a save without resize.
reviewRemoveBackground(f) ==
    LET d == EnsureAlpha(f)
        isBg == ReviewFillRun(FillStart(f.width, f.height), d, f.width,
                              f.height, 4).isBackground
    IN  [data |-> ApplyTransparency(d, isBg, 4),
         isBackground |-> isBg,
         width |-> f.width, height |-> f.height]

\* ===========================================================================
\* main of remove-grey-bg.js: the batch over the day directories

days == <<"monday", "tuesday", "wednesday", "thursday", "friday">>

\* Bound: the directory entries in all day directories together.
MaxEntries == 3

\* A directory entry: a name that ends with .png or not, and the file behind.
DirEntries ==
    {[png |-> TRUE, file |-> CorruptFile],
     [png |-> TRUE, file |-> MkImage(1, 1, 3, [i \in 0..0 |-> Grey], 255)],
     [png |-> FALSE, file |-> CorruptFile]}

\* The day directories with at most n entries: absent, or a listing.
DayDirs(n) ==
    {[exists |-> FALSE, entries |-> <<>>]} \cup
    {[exists |-> TRUE, entries |-> e] :
        e \in UNION {[1..k -> DirEntries] : k \in 0..n}}

RECURSIVE DirTrees(_, _)
\* The trees of n day directories with at most budget entries together.
DirTrees(n, budget) ==
    IF n = 0 THEN {<<>>}
    ELSE UNION {{<<dir>> \o t :
                    t \in DirTrees(n - 1, budget - Len(dir.entries))} :
                dir \in DayDirs(budget)}

\* The mutant of PngEntries: the listing is not filtered.
PngEntries_Unfiltered(dir) ==
    [k \in 1..Len(dir.entries) |-> k]

\* fs.readdirSync(dayIn).filter(f => f.endsWith('.png')): the positions of
\* the .png entries, in listing order.
PngEntries(dir) ==
    LET F[k \in 0..Len(dir.entries)] ==
            IF k = 0 THEN <<>>
            ELSE IF dir.entries[k].png THEN Append(F[k - 1], k)
            ELSE F[k - 1]
    IN  F[Len(dir.entries)]

InitMain ==
    /\ baseDir \in DirTrees(Len(days), MaxEntries)
    /\ mpc = "days"
    /\ dayIdx = 1
    /\ files = <<>>
    /\ fileIdx = 0
    /\ processed = 0 /\ errors = 0
    /\ invoked = <<>>
    /\ PipeIdle
    /\ GreyIdle
    /\ ConcIdle
    /\ AuxIdle

\* What main leaves alone.
mainFrame == <<pc, inFile, outFile, width, height, channels, data,
               isBackground, pass, shadowCleaned, extraRemoved,
               removedPixels, baseDir, greyVars, concVars, auxVars>>

\* if (!fs.existsSync(dayIn)) continue.
SkipDay ==
    /\ mpc = "days"
    /\ dayIdx <= Len(days)
    /\ ~baseDir[dayIdx].exists
    /\ dayIdx' = dayIdx + 1
    /\ UNCHANGED <<mpc, files, fileIdx, processed, errors, invoked, result>>
    /\ UNCHANGED mainFrame

\* The day directory exists: its .png files are listed.
ListDay ==
    /\ mpc = "days"
    /\ dayIdx <= Len(days)
    /\ baseDir[dayIdx].exists
    /\ files' = PngEntries(baseDir[dayIdx])
    /\ fileIdx' = 1
    /\ mpc' = "files"
    /\ UNCHANGED <<dayIdx, processed, errors, invoked, result>>
    /\ UNCHANGED mainFrame

\* One iteration of the loop over files: removeBackground is awaited and
\* its result counted.
ProcessFile ==
    /\ mpc = "files"
    /\ fileIdx <= Len(files)
    /\ \E encodes \in BOOLEAN :
          result' = removeBackgroundResult(
                        baseDir[dayIdx].entries[files[fileIdx]].file, encodes)
    /\ invoked' = Append(invoked, <<dayIdx, files[fileIdx]>>)
    /\ IF result'.success
       THEN processed' = processed + 1 /\ UNCHANGED errors
       ELSE errors' = errors + 1 /\ UNCHANGED processed
    /\ fileIdx' = fileIdx + 1
    /\ UNCHANGED <<mpc, dayIdx, files>>
    /\ UNCHANGED mainFrame

\* The loop over files ends: the next day.
DayDone ==
    /\ mpc = "files"
    /\ fileIdx > Len(files)
    /\ dayIdx' = dayIdx + 1
    /\ mpc' = "days"
    /\ UNCHANGED <<files, fileIdx, processed, errors, invoked, result>>
    /\ UNCHANGED mainFrame

\* The loop over days ends: the summary is printed.
MainEnd ==
    /\ mpc = "days"
    /\ dayIdx > Len(days)
    /\ mpc' = "end"
    /\ UNCHANGED <<dayIdx, files, fileIdx, processed, errors, invoked,
                   result>>
    /\ UNCHANGED mainFrame

NextMain ==
    \/ SkipDay
    \/ ListDay
    \/ ProcessFile
    \/ DayDone
    \/ MainEnd

SpecMain == InitMain /\ [][NextMain]_vars

\* ===========================================================================
\* Concurrent invocations of removeBackground.  An invocation is suspended at
\* its two awaits (toBuffer and toFile); what lies between them runs without
\* interruption.

\* Bound: the number of pixels of the images the invocations are given.
MaxConcPixels == 2

ConcFiles ==
    {f \in FreeImages : f.width * f.height <= MaxConcPixels}
        \cup {CorruptFile}

\* The invocations.
Tasks == 1..2

\* The locals of an invocation that awaits toBuffer.
NewCall(f) ==
    [pc |-> "decode", inFile |-> f, outFile |-> NoFile,
     width |-> 0, height |-> 0, channels |-> 0,
     data |-> 0,            \* the buffer `data` refers to (0: none yet)
     isBackground |-> <<>>,
     allRemoved |-> 0,
     written |-> <<>>,      \* the raster toFile encoded
     result |-> NoResult]

InitConc ==
    /\ calls \in [Tasks -> {NewCall(f) : f \in ConcFiles}]
    /\ heap = <<>>
    /\ PipeIdle
    /\ MainIdle
    /\ GreyIdle
    /\ AuxIdle

\* Mutant: toBuffer hands out the same pooled buffer to every caller.
NewBuffer_Pooled(h) == Min2(1, Len(h) + 1)

\* toBuffer resolves with a Buffer of its own: a new place on the heap.
NewBuffer(h) == Len(h) + 1

\* The heap with buffer ref holding buf.
Store(h, ref, buf) ==
    IF ref <= Len(h) THEN [h EXCEPT ![ref] = buf] ELSE Append(h, buf)

\* The await of toBuffer resolves: data and info are bound, steps 1 to 4 run
\* on the buffer, and toFile is called on it.
ConcStages(t) ==
    /\ calls[t].pc = "decode"
    /\ calls[t].inFile # CorruptFile
    /\ LET f == calls[t].inFile
           ref == NewBuffer(heap)
           decoded == Store(heap, ref, EnsureAlpha(f))
           s == PixelStages(decoded[ref], f.width, f.height, 4)
       IN  /\ heap' = [decoded EXCEPT ![ref] = s.data]
           /\ calls' = [calls EXCEPT ![t] =
                          [@ EXCEPT !.pc = "encode",
                                    !.width = f.width,
                                    !.height = f.height,
                                    !.channels = 4,
                                    !.data = ref,
                                    !.isBackground = s.isBackground,
                                    !.allRemoved = s.allRemoved]]
    /\ UNCHANGED <<pipeVars, mainVars, greyVars, auxVars>>

\* The await of toBuffer rejects: the catch block returns the failure.
ConcDecodeFail(t) ==
    /\ calls[t].pc = "decode"
    /\ calls[t].inFile = CorruptFile
    /\ calls' = [calls EXCEPT ![t] =
                    [@ EXCEPT !.pc = "done",
                              !.result = [NoResult EXCEPT !.error = "decode"]]]
    /\ UNCHANGED <<heap, pipeVars, mainVars, greyVars, auxVars>>

\* The await of toFile resolves: the buffer has been encoded and the success
\* result is returned.
ConcEncodeOk(t) ==
    /\ calls[t].pc = "encode"
    /\ calls' = [calls EXCEPT ![t] =
                    [@ EXCEPT !.pc = "done",
                              !.written = heap[calls[t].data],
                              !.outFile =
                                  [width |-> ResizeContain(calls[t].width,
                                       calls[t].height, OutputSize).width,
                                   height |-> ResizeContain(calls[t].width,
                                       calls[t].height, OutputSize).height,
                                   complete |-> TRUE],
                              !.result =
                                  [success |-> TRUE, error |-> "none",
                                   allRemoved |-> calls[t].allRemoved,
                                   totalPixels |-> calls[t].width
                                                       * calls[t].height]]]
    /\ UNCHANGED <<heap, pipeVars, mainVars, greyVars, auxVars>>

\* The await of toFile rejects: the catch block returns the failure.
ConcEncodeFail(t) ==
    /\ calls[t].pc = "encode"
    /\ \E left \in {calls[t].outFile,
                    [width |-> ResizeContain(calls[t].width,
                         calls[t].height, OutputSize).width,
                     height |-> ResizeContain(calls[t].width,
                         calls[t].height, OutputSize).height,
                     complete |-> FALSE]} :
          calls' = [calls EXCEPT ![t] =
                       [@ EXCEPT !.pc = "done",
                                 !.outFile = left,
                                 !.result =
                                     [NoResult EXCEPT !.error = "encode"]]]
    /\ UNCHANGED <<heap, pipeVars, mainVars, greyVars, auxVars>>

NextConc ==
    \/ \E t \in Tasks : ConcStages(t)
    \/ \E t \in Tasks : ConcDecodeFail(t)
    \/ \E t \in Tasks : ConcEncodeOk(t)
    \/ \E t \in Tasks : ConcEncodeFail(t)

SpecConc == InitConc /\ [][NextConc]_vars

\* ===========================================================================
\* Definitions the properties are stated with
\* ===========================================================================
Pixels == 0..(width * height - 1)

Decoded == pc # "decode" /\ data # <<>>

AfterFill == pc = "cleanup" /\ pass = 0

PastFill == pc \in {"cleanup", "blob", "smooth", "encode"}

Smoothed == pc = "encode" \/ (pc = "done" /\ data # <<>>)

Red(i) == data[i * 4]

Green(i) == data[i * 4 + 1]

Blue(i) == data[i * 4 + 2]

Alpha(i) == data[i * 4 + 3]

DecodedAlpha(i) == EnsureAlpha(inFile)[i * 4 + 3]

Classified(i) == isGreyPixel(Red(i), Green(i), Blue(i))

Col(i) == i % width

Row(i) == i \div width

OnBorder(i) ==
    \/ Col(i) = 0 \/ Col(i) = width - 1
    \/ Row(i) = 0 \/ Row(i) = height - 1

Adjacent(i, j) ==
    \/ (Row(i) = Row(j) /\ Abs(Col(i) - Col(j)) = 1)
    \/ (Col(i) = Col(j) /\ Abs(Row(i) - Row(j)) = 1)

\* The least set holding S and closed under stepping to an adjacent pixel
\* of `within`.
RECURSIVE Closure(_, _)
Closure(S, within) ==
    LET more == {j \in within \ S :
                    \E d \in {-1, 1, -width, width} :
                        j + d \in S /\ Adjacent(j, j + d)}
    IN  IF more = {} THEN S ELSE Closure(S \cup more, within)

\* The pixels with a 4-connected path of classifier-positive pixels to a
\* pixel on one of the four edges.
BorderReachable ==
    LET grey == {i \in Pixels : Classified(i)}
    IN  Closure({i \in grey : OnBorder(i)}, grey)

\* The 4-connected components of the non-background pixels of a mask.
Foreground(mask) == {i \in Pixels : mask[i] = 0}

Components(mask) ==
    {Closure({i}, Foreground(mask)) : i \in Foreground(mask)}

\* Squared Euclidean distance from pixel i to the nearest mask-true pixel of
\* the whole image (NoBackground when the mask is empty).
NoBackground == 1000 * 1000

Nearest2(i) ==
    LET ds == {(Col(i) - Col(j)) * (Col(i) - Col(j))
                + (Row(i) - Row(j)) * (Row(i) - Row(j)) :
                    j \in {m \in Pixels : isBackground[m] = 1}}
    IN  IF ds = {} THEN NoBackground
        ELSE CHOOSE m \in ds : \A n \in ds : m <= n

\* round(255 d / R) for the distance d with d * d = d2.
RoundedRamp(d2, R) ==
    CHOOSE k \in 0..(255 * (width + height)) :
        /\ (2 * k - 1) * R <= 0 \/ (2 * k - 1) * (2 * k - 1) * R * R <= 4 * 65025 * d2
        /\ 4 * 65025 * d2 < (2 * k + 1) * (2 * k + 1) * R * R

\* ===========================================================================
\* Properties
\* ===========================================================================

\* C1: when floodFillBackground has returned, the mask is true for a pixel
\* exactly when the pixel is classifier-positive and has a 4-connected path
\* of classifier-positive pixels to a pixel on an image edge.
C1_FloodFillIsBorderReachability ==
    AfterFill => {i \in Pixels : isBackground[i] = 1} = BorderReachable

\* A fill that reached a pixel off the border and left a classifier-positive
\* pixel unmarked.
C1_Witness ==
    /\ AfterFill
    /\ \E i \in Pixels : isBackground[i] = 1 /\ ~OnBorder(i)
    /\ \E i \in Pixels : Classified(i) /\ isBackground[i] = 0

\* The classifier-positive pixels with no classifier-positive path to the
\* border.
Enclosed == {i \in Pixels : Classified(i)} \ BorderReachable

InScanBand(i) ==
    /\ Col(i) >= DensityRadius /\ Col(i) < width - DensityRadius
    /\ Row(i) >= DensityRadius /\ Row(i) < height - DensityRadius

C3_BorderReachableIsTransparent ==
    Smoothed => \A i \in BorderReachable : Alpha(i) = 0

\* Reachable pixels off the border made transparent next to an opaque one.
C3_Witness ==
    /\ Smoothed
    /\ \E i \in BorderReachable : ~OnBorder(i) /\ Alpha(i) = 0
    /\ \E i \in Pixels : Alpha(i) = 255

\* C4: from the return of the flood fill on, every step leaves every true
\* mask entry true (the mask is a superset of the mask before the step).
C4_MaskOnlyGrows ==
    [][(PastFill /\ isBackground' # isBackground) =>
        /\ DOMAIN isBackground' = DOMAIN isBackground
        /\ \A i \in DOMAIN isBackground :
              isBackground[i] = 1 => isBackground'[i] = 1]_vars

\* Both growing stages have grown the mask.
C4_Witness ==
    /\ pc = "smooth"
    /\ shadowCleaned > 0
    /\ extraRemoved > 0

\* C5: keepLargestBlob on a mask with a non-background pixel leaves exactly
\* one 4-connected component of non-background pixels; it is a component of
\* the mask it was given, no other component is larger, its pixels are
\* unchanged and the pixels of all other components are background.
C5_OneLargestComponentKept ==
    [][(pc = "blob" /\ Foreground(isBackground) # {}) =>
        LET comps == Components(isBackground)
            kept == {i \in Pixels : isBackground'[i] = 0}
        IN  /\ kept \in comps
            /\ \A c \in comps : Cardinality(c) <= Cardinality(kept)
            /\ \A i \in Pixels \ kept : isBackground'[i] = 1]_vars

\* Smaller blobs were removed and a blob of several pixels was kept.
C5_Witness ==
    /\ pc = "smooth"
    /\ extraRemoved > 0
    /\ Cardinality(Foreground(isBackground)) >= 2

AllClassified == Decoded /\ \A i \in Pixels : Classified(i)

\* C6: on an image whose every pixel is classifier-positive the fill marks
\* every pixel, the cleanup and keepLargestBlob change nothing and count 0,
\* every alpha is 0 after feathering, and no pixel stage makes the run fail:
\* the result is the success result unless the write of the file failed.
C6_AllBackgroundImage ==
    AllClassified =>
        /\ PastFill \/ Smoothed => \A i \in Pixels : isBackground[i] = 1
        /\ shadowCleaned = 0
        /\ extraRemoved = 0
        /\ Smoothed => \A i \in Pixels : Alpha(i) = 0
        /\ pc = "done" => result.success \/ result.error = "encode"

\* An all-background image of more than one pixel returned as a success.
C6_Witness ==
    /\ AllClassified
    /\ pc = "done"
    /\ result.success
    /\ width * height > 1
    /\ removedPixels = width * height

\* C7: the decoded buffer holds the red, green and blue bytes of the input,
\* and from then on no step writes a byte that is not an alpha byte (so the
\* colour of every pixel stays equal to its input value).
C7_OnlyAlphaIsWritten ==
    [][/\ (pc = "decode" /\ pc' = "fill") =>
            \A i \in 0..(inFile.width * inFile.height - 1) : \A c \in 0..2 :
                data'[i * 4 + c] = inFile.data[i * inFile.channels + c]
       /\ (Decoded /\ data' # data) =>
            /\ DOMAIN data' = DOMAIN data
            /\ \A k \in DOMAIN data : k % 4 # 3 => data'[k] = data[k]]_vars

\* The feathering has written alpha bytes.
C7_Witness ==
    /\ Smoothed
    /\ \E i \in Pixels : Alpha(i) \notin {0, DecodedAlpha(i)}

HasBackground == \E i \in Pixels : isBackground[i] = 1

\* C8 as stated: after applyEdgeSmoothing alpha is monotonic in the distance
\* to the mask and is 255 from the feather radius on (checked on the images
\* that have a mask-true pixel to measure the distance to).
C8_AlphaMonotonicInDistance ==
    (Smoothed /\ HasBackground) =>
        /\ \A p, q \in Pixels :
              Nearest2(p) <= Nearest2(q) => Alpha(p) <= Alpha(q)
        /\ \A p \in Pixels :
              Nearest2(p) >= FeatherRadius * FeatherRadius => Alpha(p) = 255

\* C9 as stated: alpha 0 on the mask, round(255 d / R) below the radius,
\* 255 from the radius on (checked on the images that have a mask-true
\* pixel to measure the distance to).
C9_FeatherValues ==
    (Smoothed /\ HasBackground) =>
        \A p \in Pixels :
            Alpha(p) =
                IF isBackground[p] = 1 THEN 0
                ELSE IF Nearest2(p) < FeatherRadius * FeatherRadius
                THEN RoundedRamp(Nearest2(p), FeatherRadius)
                ELSE 255

\* The centre patch: what the border-connected background leaves.
Patch == Pixels \ BorderReachable

\* The border is classifier-positive and the rest of the image is its
\* border-connected background and one connected patch of bright pixels
\* that are not classifier-positive.
BrightCentrePatch ==
    /\ Decoded
    /\ \A i \in Pixels : OnBorder(i) => Classified(i)
    /\ LET patch == Patch
       IN  /\ patch # {}
           /\ \A i \in patch :
                 /\ ~Classified(i)
                 /\ Red(i) + Green(i) + Blue(i) > 3 * GreyBrightnessMax
           /\ \A i \in patch : Closure({i}, patch) = patch

C11_AllOrNothingOutput ==
    /\ (pc # "done") => outFile = NoFile
    /\ (pc = "done" /\ ~result.success) => outFile = NoFile
    /\ (pc = "done" /\ result.success) => outFile.complete

\* ---------------------------------------------------------------------------
\* The .png files of the existing day directories from entry k of day d on,
\* in the order of the days and of the listings, appended to found.
RECURSIVE PngFilesFrom(_, _, _)
PngFilesFrom(d, k, found) ==
    IF d > Len(days) THEN found
    ELSE IF ~baseDir[d].exists \/ k > Len(baseDir[d].entries)
    THEN PngFilesFrom(d + 1, 1, found)
    ELSE IF baseDir[d].entries[k].png
    THEN PngFilesFrom(d, k + 1, Append(found, <<d, k>>))
    ELSE PngFilesFrom(d, k + 1, found)

\* C12: main calls removeBackground exactly once on every .png file of every
\* existing day directory, whatever the earlier outcomes: the calls made so
\* far are a prefix of those files, each call is counted as processed or as
\* an error, and when the loops have ended every file has been called on.
C12_EveryPngInvokedOnce ==
    LET all == PngFilesFrom(1, 1, <<>>)
    IN  /\ Len(invoked) <= Len(all)
        /\ invoked = SubSeq(all, 1, Len(invoked))
        /\ processed + errors = Len(invoked)
        /\ mpc = "end" => invoked = all

\* A batch that has ended in which a failure was followed by a success and a
\* non-.png entry was passed over.
C12_Witness ==
    /\ mpc = "end"
    /\ errors >= 1
    /\ processed >= 1
    /\ result.success
    /\ \E d \in 1..Len(days) :
          \E k \in 1..Len(baseDir[d].entries) : ~baseDir[d].entries[k].png

\* ---------------------------------------------------------------------------
\* C13 as stated: for the same raw input, smart-update.js removeBgSingle and
\* review-images.js removeBackground produce the same background mask and the
\* same alpha channel as remove-grey-bg.js removeBackground.
C13_SamePipelineOnEveryPath ==
    (pc = "done" /\ result.success) =>
        LET single == removeBgSingle(inFile)
            review == reviewRemoveBackground(inFile)
        IN  /\ single.isBackground = isBackground
            /\ review.isBackground = isBackground
            /\ \A i \in Pixels :
                  /\ single.data[4 * i + AlphaOffset] = Alpha(i)
                  /\ review.data[4 * i + AlphaOffset] = Alpha(i)

\* ---------------------------------------------------------------------------
\* Three times the brightness of pixel i.
Sum3(i) == Red(i) + Green(i) + Blue(i)

\* The ring offsets of pixel i that fall inside the image.
RingInside(i) ==
    {o \in RingOffsets :
        /\ Col(i) + o[1] >= 0 /\ Col(i) + o[1] < width
        /\ Row(i) + o[2] >= 0 /\ Row(i) + o[2] < height}

\* More than 45% of the sampled ring neighbours of i are background in mask.
RingDense(i, mask) ==
    LET ring == RingInside(i)
        transparent == {o \in ring :
                           mask[(Row(i) + o[2]) * width + Col(i) + o[1]] = 1}
    IN  100 * Cardinality(transparent)
            > TransparencyPercent * Cardinality(ring)

\* The pixels a step changes in the mask.
Reclassified == {i \in Pixels : isBackground'[i] # isBackground[i]}

\* C14 as stated: a density pass reclassifies exactly the pixels that are
\* non-background when the pass starts, have a brightness below the ceiling
\* and a ring that is more than 45% background, wherever they lie.
C14_DenseDarkReclassifiedAnywhere ==
    [][(pc = "cleanup" /\ pass < DensityPasses) =>
          Reclassified =
              {i \in Pixels : /\ isBackground[i] = 0
                              /\ Sum3(i) < 3 * ShadowBrightnessMax
                              /\ RingDense(i, isBackground)}]_vars

\* ---------------------------------------------------------------------------
\* The elements of a sequence.
Range(q) == {q[k] : k \in 1..Len(q)}

Reversed(q) == [k \in 1..Len(q) |-> q[Len(q) + 1 - k]]

\* C15: in a pass the scan writes no mask entry; the pixels it queues are
\* those the test selects on the mask as it is when the pass starts, in the
\* order of the loops and in the reverse order alike; and the pass turns
\* exactly those pixels into background before the next pass.
C15_PassReadsStartMaskOnly ==
    [][(pc = "cleanup" /\ pass < DensityPasses) =>
          LET order == ScanOrder(width, height)
              scan == DensityScanFrom(1, order, <<>>, data, isBackground,
                                      width, height, channels)
              back == DensityScanFrom(1, Reversed(order), <<>>, data,
                                      isBackground, width, height, channels)
              selected == {i \in Range(order) :
                              ShadowCandidate(data, isBackground, width,
                                              height, channels, i)}
          IN  /\ scan.isBackground = isBackground
              /\ Range(scan.toRemove) = selected
              /\ Range(back.toRemove) = selected
              /\ Reclassified = selected
              /\ \A i \in selected : isBackground'[i] = 1]_vars

\* A pass has committed its pixels and the next pass finds pixels that the
\* pass before did not select.
C15_Witness ==
    /\ pc = "cleanup"
    /\ pass >= 1
    /\ pass < DensityPasses
    /\ DensityToRemove(data, isBackground, width, height, channels) # {}

\* ---------------------------------------------------------------------------
\* C16: densityShadowCleanup runs at most 5 passes; a pass that queues no
\* pixel is the last one; each pass adds to the count exactly the number of
\* mask entries it turns from 0 to 1, and the count returned is the number of
\* entries that differ from the mask the flood fill returned.
C16_CleanupBoundedAndCounted ==
    [][(pc = "cleanup") =>
          /\ pass' <= DensityPasses
          /\ pc' \in {"cleanup", "blob"}
          /\ (pc' = "cleanup") => (pass' = pass + 1 /\ Reclassified # {})
          /\ (Reclassified = {}) => pc' = "blob"
          /\ shadowCleaned' - shadowCleaned =
                Cardinality({i \in Pixels :
                                isBackground[i] = 0 /\ isBackground'[i] = 1})
          /\ (pc' = "blob") =>
                LET filled == floodFillBackground(data, width, height,
                                                  channels)
                IN  shadowCleaned' =
                        Cardinality({i \in Pixels :
                            filled[i] = 0 /\ isBackground'[i] = 1})]_vars

\* The cleanup has returned after all its passes, each of which removed
\* pixels.
C16_Witness ==
    /\ pc = "blob"
    /\ pass = DensityPasses
    /\ shadowCleaned >= DensityPasses

\* ---------------------------------------------------------------------------
\* The largest less the smallest of the three channel values.
ChannelSpread ==
    LET vs == {rgb[1], rgb[2], rgb[3]}
    IN  (CHOOSE a \in vs : \A v \in vs : v <= a)
            - (CHOOSE a \in vs : \A v \in vs : a <= v)

\* C17: isGreyPixel(r, g, b) is true exactly when the channel values differ
\* by less than 50 and r + g + b is at most 555: a spread of 49 is accepted
\* and one of 50 rejected, a sum of 555 accepted and one of 556 rejected.
C17_GreyExactlyWithinThresholds ==
    verdict.returned =>
        /\ verdict.grey =
              (ChannelSpread <= 49 /\ rgb[1] + rgb[2] + rgb[3] <= 555)
        /\ (ChannelSpread = 49 /\ rgb[1] + rgb[2] + rgb[3] <= 555)
              => verdict.grey
        /\ (ChannelSpread = 50) => ~verdict.grey
        /\ (rgb[1] + rgb[2] + rgb[3] = 555 /\ ChannelSpread < 50)
              => verdict.grey
        /\ (rgb[1] + rgb[2] + rgb[3] = 556) => ~verdict.grey

\* A pixel with the largest accepted brightness, its three channel values all
\* different, has been classified as grey.
C17_Witness ==
    /\ verdict.returned
    /\ verdict.grey
    /\ rgb[1] + rgb[2] + rgb[3] = 555
    /\ rgb[2] < rgb[1]
    /\ rgb[1] < rgb[3]

\* ---------------------------------------------------------------------------
\* The smallest row-major index of a set of pixels.
FirstIndex(c) == CHOOSE m \in c : \A n \in c : m <= n

\* The largest components of a mask.
Tied(mask) ==
    LET comps == Components(mask)
    IN  {c \in comps : \A o \in comps : Cardinality(o) <= Cardinality(c)}

\* The mask keepLargestBlob is given: the flood fill's after the cleanup.
MaskBeforeBlob ==
    densityShadowCleanup(data,
                         floodFillBackground(data, width, height, channels),
                         width, height, channels).isBackground

\* C18: of the components of largest size keepLargestBlob keeps the one that
\* holds the smallest row-major index, and a second run on the mask it has
\* left keeps the same component (it changes nothing and counts 0).
C18_FirstOfTiedKept ==
    [][(pc = "blob" /\ Foreground(isBackground) # {}) =>
        LET tied == Tied(isBackground)
            kept == {i \in Pixels : isBackground'[i] = 0}
            again == keepLargestBlob(isBackground', width, height)
        IN  /\ kept \in tied
            /\ \A c \in tied : FirstIndex(kept) <= FirstIndex(c)
            /\ again.isBackground = isBackground'
            /\ again.extraRemoved = 0]_vars

\* keepLargestBlob has run on a mask with several components of the largest
\* size, made of more than one pixel each.
C18_Witness ==
    /\ pc = "smooth"
    /\ Cardinality(Foreground(isBackground)) >= 2
    /\ LET before == MaskBeforeBlob
       IN  Cardinality({c \in Components(before) :
               Cardinality(c) = Cardinality(Foreground(isBackground))}) >= 2

\* ---------------------------------------------------------------------------
\* What an invocation on the file f computes when it runs alone.
Alone(f) == PixelStages(EnsureAlpha(f), f.width, f.height, 4)

\* C19: however two invocations interleave at their awaits, each holds a
\* buffer of its own, and its mask, the alpha channel (the whole raster) it
\* hands to the encoder and has encoded, and its result are those of a run
\* alone on its input.
C19_ConcurrentAsAlone ==
    \A t \in DOMAIN calls :
        LET c == calls[t]
        IN  /\ \A u \in DOMAIN calls :
                  (u # t /\ c.data # 0) => calls[u].data # c.data
            /\ (c.pc = "encode") =>
                  /\ heap[c.data] = Alone(c.inFile).data
                  /\ c.isBackground = Alone(c.inFile).isBackground
            /\ (c.pc = "done") =>
                  c.result = removeBackgroundResult(c.inFile, c.result.success)
            /\ (c.pc = "done" /\ c.result.success) =>
                  /\ c.written = Alone(c.inFile).data
                  /\ c.isBackground = Alone(c.inFile).isBackground

\* One invocation has returned its success while the other, started on a
\* different image before the first one's encode ended or after, is still
\* awaiting its own encode.
C19_Witness ==
    /\ calls # <<>>
    /\ calls[1].pc = "done"
    /\ calls[1].result.success
    /\ calls[2].pc = "encode"
    /\ calls[1].inFile # calls[2].inFile
    /\ calls[1].written # heap[calls[2].data]

\* ---------------------------------------------------------------------------
\* C20: whenever removeBackground returns success the file it has written is
\* exactly 512 x 512, whatever the width and height of the input.
C20_OutputIsCanonicalSize ==
    (pc = "done" /\ result.success) =>
        /\ outFile.complete
        /\ outFile.width = 512
        /\ outFile.height = 512

\* A success on an input that is taller than wide: the scaled raster is
\* narrower than the box and the file is as wide as the box.
C20_Witness ==
    /\ pc = "done"
    /\ result.success
    /\ width < height
    /\ ResizeInside(width, height, OutputSize).width < OutputSize
    /\ outFile.width = OutputSize

\* ---------------------------------------------------------------------------
\* The two flood fills, one loop iteration at a time
\* ---------------------------------------------------------------------------
MaxWalkPixels == 4

\* The images the fills are stepped on: every two-colour raster of up to
\* MaxWalkPixels pixels, and the small plates (which have interior pixels).
WalkFiles ==
    UNION {{MkImage(s[1], s[2], 3, c, 255) :
                c \in [0..(s[1] * s[2] - 1) -> FreePalette]} :
           s \in {t \in FreeShapes : t[1] * t[2] <= MaxWalkPixels}}
    \cup {f \in PlateImages : f.width = SmallSide}

\* floodFillBackground's while loop, the iteration that shifts the head of
\* the queue: it gets past the first `continue` (the pixel is marked visited).
FillVisits(s, w, h) ==
    LET idx == Head(s.queue)
    IN  ~(idx < 0 \/ idx >= w * h \/ s.visited[idx] = 1)

\* ... and past the second one (the pixel is expanded: its neighbours are
\* pushed).
FillExpands(s, d, w, h, ch) ==
    LET pi == Head(s.queue) * ch
    IN  /\ FillVisits(s, w, h)
        /\ isGreyPixel(d[pi], d[pi + 1], d[pi + 2])

\* Mutant: keepLargestBlob's inner loop does not test blobId[idx] >= 0.
BlobLabels_NoLabelTest(stack, blobId, mask, w, h) ==
    LET idx == stack[Len(stack)]
    IN  ~(idx < 0 \/ idx >= w * h \/ mask[idx] = 1)

\* keepLargestBlob's inner while loop, the iteration that pops the top of
\* the stack: it gets past the `continue` (the pixel is labelled).
BlobLabels(stack, blobId, mask, w, h) ==
    LET idx == stack[Len(stack)]
    IN  ~(idx < 0 \/ idx >= w * h \/ mask[idx] = 1 \/ blobId[idx] >= 0)

\* One iteration of that loop.
BlobStep(b, mask, w, h) ==
    LET idx == b.stack[Len(b.stack)]
        rest == SubSeq(b.stack, 1, Len(b.stack) - 1)
    IN  IF ~BlobLabels(b.stack, b.blobId, mask, w, h)
        THEN [b EXCEPT !.stack = rest]
        ELSE [b EXCEPT !.stack = rest \o NeighbourPushes(idx, w, h),
                       !.blobId[idx] = b.currentBlob,
                       !.size = @ + 1]

\* The locals of keepLargestBlob on entry.
BlobStart(w, h) ==
    [i |-> 0, currentBlob |-> 0, blobId |-> [k \in 0..(w * h - 1) |-> -1],
     blobSizes |-> <<>>, stack |-> <<>>, size |-> 0]

\* The rest of keepLargestBlob, after the labelling loop.
BlobKeep(b, mask, w, h) ==
    IF Len(b.blobSizes) = 0 THEN mask
    ELSE LET largestBlob == LargestBlob(b.blobSizes)
         IN  [k \in 0..(w * h - 1) |->
                 IF mask[k] = 0 /\ b.blobId[k] # largestBlob THEN 1
                 ELSE mask[k]]

\* No loop iteration is taken once a loop has pushed this many indices: far
\* more than an image of w x h pixels can make it push.
WalkCap(w, h) == 2 * (Len(FillSeeds(w, h)) + 4 * w * h)

\* removeBackground has decoded f and enters floodFillBackground.  pushes,
\* expanded, blobPushes and labelled count what the loops do: the indices
\* pushed, and how often each pixel was expanded or labelled.
WalkStart(f) ==
    [phase |-> "fill",
     width |-> f.width, height |-> f.height, channels |-> 4,
     data |-> EnsureAlpha(f),
     fill |-> FillStart(f.width, f.height),
     pushes |-> Len(FillSeeds(f.width, f.height)),
     marked |-> [k \in 0..(f.width * f.height - 1) |-> 0],
     expanded |-> [k \in 0..(f.width * f.height - 1) |-> 0],
     mask |-> [k \in 0..(f.width * f.height - 1) |-> 0],
     blob |-> BlobStart(f.width, f.height),
     blobPushes |-> 0,
     labelled |-> [k \in 0..(f.width * f.height - 1) |-> 0]]

InitWalk ==
    /\ walk \in {WalkStart(f) : f \in WalkFiles}
    /\ PipeIdle
    /\ MainIdle
    /\ GreyIdle
    /\ ConcIdle
    /\ MergeIdle
    /\ UpdIdle
    /\ RevIdle
    /\ JobIdle

walkFrame == <<pipeVars, mainVars, greyVars, concVars, merge, upd, rev, job>>

\* One iteration of floodFillBackground's while loop.
FillIterate ==
    /\ walk # <<>>
    /\ walk.phase = "fill"
    /\ walk.fill.queue # <<>>
    /\ walk.pushes <= WalkCap(walk.width, walk.height)
    /\ LET idx == Head(walk.fill.queue)
           next == FillStep(walk.fill, walk.data, walk.width, walk.height,
                            walk.channels)
           visits == FillVisits(walk.fill, walk.width, walk.height)
           expands == FillExpands(walk.fill, walk.data, walk.width,
                                  walk.height, walk.channels)
       IN  walk' = [walk EXCEPT
                       !.fill = next,
                       !.pushes = @ + Len(next.queue)
                                    - (Len(walk.fill.queue) - 1),
                       !.marked = IF visits THEN [@ EXCEPT ![idx] = @ + 1]
                                  ELSE @,
                       !.expanded = IF expands THEN [@ EXCEPT ![idx] = @ + 1]
                                    ELSE @]
    /\ UNCHANGED walkFrame

\* The queue is empty: floodFillBackground returns, densityShadowCleanup runs
\* and keepLargestBlob is entered.
FillReturn ==
    /\ walk # <<>>
    /\ walk.phase = "fill"
    /\ walk.fill.queue = <<>>
    /\ walk' = [walk EXCEPT
                   !.phase = "label",
                   !.mask = densityShadowCleanup(walk.data,
                                walk.fill.isBackground, walk.width,
                                walk.height, walk.channels).isBackground,
                   !.blob = BlobStart(walk.width, walk.height)]
    /\ UNCHANGED walkFrame

\* keepLargestBlob's for loop: pixel i is background or labelled already.
BlobSkip ==
    /\ walk # <<>>
    /\ walk.phase = "label"
    /\ walk.blob.i < walk.width * walk.height
    /\ walk.mask[walk.blob.i] = 1 \/ walk.blob.blobId[walk.blob.i] >= 0
    /\ walk' = [walk EXCEPT !.blob.i = @ + 1]
    /\ UNCHANGED walkFrame

\* keepLargestBlob's for loop: pixel i opens a new blob, queue = [i].
BlobOpen ==
    /\ walk # <<>>
    /\ walk.phase = "label"
    /\ walk.blob.i < walk.width * walk.height
    /\ ~(walk.mask[walk.blob.i] = 1 \/ walk.blob.blobId[walk.blob.i] >= 0)
    /\ walk' = [walk EXCEPT !.phase = "flood",
                            !.blob.stack = <<walk.blob.i>>,
                            !.blob.size = 0,
                            !.blobPushes = @ + 1]
    /\ UNCHANGED walkFrame

\* One iteration of keepLargestBlob's inner while loop.
BlobIterate ==
    /\ walk # <<>>
    /\ walk.phase = "flood"
    /\ walk.blob.stack # <<>>
    /\ walk.blobPushes <= WalkCap(walk.width, walk.height)
    /\ LET idx == walk.blob.stack[Len(walk.blob.stack)]
           next == BlobStep(walk.blob, walk.mask, walk.width, walk.height)
           labels == BlobLabels(walk.blob.stack, walk.blob.blobId, walk.mask,
                                walk.width, walk.height)
       IN  walk' = [walk EXCEPT
                       !.blob = next,
                       !.blobPushes = @ + Len(next.stack)
                                        - (Len(walk.blob.stack) - 1),
                       !.labelled = IF labels THEN [@ EXCEPT ![idx] = @ + 1]
                                    ELSE @]
    /\ UNCHANGED walkFrame

\* The inner loop ends: the blob's size is recorded, the for loop goes on.
BlobClose ==
    /\ walk # <<>>
    /\ walk.phase = "flood"
    /\ walk.blob.stack = <<>>
    /\ walk' = [walk EXCEPT !.phase = "label",
                            !.blob.blobSizes = Append(@, walk.blob.size),
                            !.blob.currentBlob = @ + 1,
                            !.blob.i = @ + 1]
    /\ UNCHANGED walkFrame

\* The for loop ends: the largest blob is kept and keepLargestBlob returns.
BlobReturn ==
    /\ walk # <<>>
    /\ walk.phase = "label"
    /\ walk.blob.i >= walk.width * walk.height
    /\ walk' = [walk EXCEPT !.phase = "done",
                            !.mask = BlobKeep(walk.blob, walk.mask,
                                              walk.width, walk.height)]
    /\ UNCHANGED walkFrame

NextWalk ==
    \/ FillIterate
    \/ FillReturn
    \/ BlobSkip
    \/ BlobOpen
    \/ BlobIterate
    \/ BlobClose
    \/ BlobReturn

SpecWalk == InitWalk /\ [][NextWalk]_vars

\* The loops are sequential code: an iteration that can run does run.
SpecWalkFair == SpecWalk /\ WF_vars(NextWalk)

WalkPixels == 0..(walk.width * walk.height - 1)

\* The mask keepLargestBlob was given (the final mask once it has returned).
WalkInBlob == walk.phase \in {"label", "flood"}

\* ---------------------------------------------------------------------------
\* C26: floodFillBackground marks and expands each pixel at most once and
\* keepLargestBlob labels each foreground pixel at most once (exactly once
\* when its loop has ended), so each loop pushes at most seed count + 4 x
\* pixel count indices, and both loops end.
C26_WalkLinear ==
    /\ \A k \in WalkPixels :
          /\ walk.marked[k] <= 1
          /\ walk.expanded[k] <= 1
          /\ walk.labelled[k] <= 1
          /\ walk.mask[k] = 1 /\ WalkInBlob => walk.labelled[k] = 0
          /\ walk.phase = "label" /\ walk.blob.i >= walk.width * walk.height
                /\ walk.mask[k] = 0 => walk.labelled[k] = 1
    /\ walk.pushes <= Len(FillSeeds(walk.width, walk.height))
                        + 4 * walk.width * walk.height
    /\ walk.blobPushes <= Len(FillSeeds(walk.width, walk.height))
                            + 4 * walk.width * walk.height

C26_FillsTerminateLinearly ==
    /\ [](walk # <<>> => C26_WalkLinear)
    /\ <>(walk # <<>> /\ walk.phase = "done")
    /\ [](walk # <<>> /\ walk.phase \in {"label", "flood", "done"}
            => walk.fill.queue = <<>>)
    /\ [](walk # <<>> /\ walk.phase \in {"label", "done"}
            => walk.blob.stack = <<>>)

\* Both loops have ended on an image with an interior pixel, where a pixel
\* was pushed more than once, the fill expanded some pixels and the
\* labelling found a blob.
C26_Witness ==
    /\ walk # <<>>
    /\ walk.phase = "done"
    /\ walk.width >= 3 /\ walk.height >= 3
    /\ \E k \in WalkPixels : walk.expanded[k] = 1
    /\ \E k \in WalkPixels : walk.labelled[k] = 1
    /\ walk.pushes > walk.width * walk.height
    /\ Len(walk.blob.blobSizes) >= 1

\* ---------------------------------------------------------------------------
\* scraper.js: mergeItems
\* ---------------------------------------------------------------------------
\* A string is the sequence of its UTF-16 code units, each a one-character
\* string.
AsciiLower ==
    <<"a", "b", "c", "d", "e", "f", "g", "h", "i", "j", "k", "l", "m", "n",
      "o", "p", "q", "r", "s", "t", "u", "v", "w", "x", "y", "z">>

AsciiUpper ==
    <<"A", "B", "C", "D", "E", "F", "G", "H", "I", "J", "K", "L", "M", "N",
      "O", "P", "Q", "R", "S", "T", "U", "V", "W", "X", "Y", "Z">>

Digits == {"0", "1", "2", "3", "4", "5", "6", "7", "8", "9"}

\* \s, which is also what String.prototype.trim removes (the space and the
\* tab stand for all of them).
WhiteSpace == {" ", "\t"}

\* \b and \w of a regular expression without the u flag: ASCII only.
IsWordChar(c) ==
    \/ \E k \in 1..26 : c = AsciiLower[k] \/ c = AsciiUpper[k]
    \/ c \in Digits
    \/ c = "_"

\* The i flag: two code units match when they have the same upper case.
Fold(c) ==
    IF \E k \in 1..26 : c = AsciiUpper[k]
    THEN AsciiLower[CHOOSE k \in 1..26 : c = AsciiUpper[k]]
    ELSE CASE c = "Å" -> "å"
           [] c = "Ø" -> "ø"
           [] c = "Æ" -> "æ"
           [] c = "Ã" -> "ã"
           [] OTHER -> c

\* String.prototype.trim.
RECURSIVE TrimLeft(_)
TrimLeft(s) ==
    IF s # <<>> /\ Head(s) \in WhiteSpace THEN TrimLeft(Tail(s)) ELSE s

RECURSIVE TrimRight(_)
TrimRight(s) ==
    IF s # <<>> /\ s[Len(s)] \in WhiteSpace
    THEN TrimRight(SubSeq(s, 1, Len(s) - 1)) ELSE s

Trim(s) == TrimRight(TrimLeft(s))

\* The alternatives of the regular expression of line 91, as the source file
\* spells them.
MergePreps ==
    {<<"m", "e", "d">>, <<"o", "g">>, <<"w", "i", "t", "h">>,
     <<"a", "n", "d">>, <<"i", "n">>, <<"p", "Ã", "¥">>, <<"i">>,
     <<"o", "v", "e", "r">>, <<"u", "n", "d", "e", "r">>, <<"t", "i", "l">>,
     <<"f", "r", "a">>, <<"a", "v">>, <<"u", "t", "e", "n">>,
     <<"m", "a", "s", "h", "e", "d">>}

\* The class of the regular expression of line 92, as the source file spells
\* it.
MergeLowerClass ==
    {AsciiLower[k] : k \in 1..26} \cup {"Ã", "¦", "¸", "¥"}

MergeMaxLength == 30

\* Mutant: the alternatives are matched without \b.
EndsWithAny_NoBoundary(preps, prev) ==
    LET t == TrimRight(prev)
    IN  \E p \in preps :
           /\ Len(t) >= Len(p)
           /\ \A k \in 1..Len(p) : Fold(t[Len(t) - Len(p) + k]) = Fold(p[k])

\* /\b(p1|p2|...)\s*$/i.test(prev): after its trailing white space prev ends
\* with an alternative, whatever the case, and a word boundary precedes it.
EndsWithAny(preps, prev) ==
    LET t == TrimRight(prev)
    IN  \E p \in preps :
           /\ Len(t) >= Len(p)
           /\ \A k \in 1..Len(p) : Fold(t[Len(t) - Len(p) + k]) = Fold(p[k])
           /\ LET at == Len(t) - Len(p)
              IN  IsWordChar(p[1]) # (at > 0 /\ IsWordChar(t[at]))

\* /^[...]/.test(line).
StartsWithIn(class, line) == line # <<>> /\ line[1] \in class

\* Mutant: the line is appended without the space.
MergeIteration_NoSpace(m) ==
    LET line == Trim(m.rawItems[m.i + 1])
        prev == m.merged[Len(m.merged)]
    IN  IF line = <<>> THEN [m EXCEPT !.i = @ + 1]
        ELSE IF /\ Len(m.merged) > 0
                /\ \/ EndsWithAny(MergePreps, prev)
                   \/ /\ StartsWithIn(MergeLowerClass, line)
                      /\ Len(line) < MergeMaxLength
        THEN [m EXCEPT !.i = @ + 1,
                       !.merged[Len(m.merged)] = prev \o line]
        ELSE [m EXCEPT !.i = @ + 1, !.merged = Append(@, line)]

\* One iteration of the for loop of mergeItems.
MergeIteration(m) ==
    LET line == Trim(m.rawItems[m.i + 1])
        prev == m.merged[Len(m.merged)]
    IN  IF line = <<>> THEN [m EXCEPT !.i = @ + 1]
        ELSE IF /\ Len(m.merged) > 0
                /\ \/ EndsWithAny(MergePreps, prev)
                   \/ /\ StartsWithIn(MergeLowerClass, line)
                      /\ Len(line) < MergeMaxLength
        THEN [m EXCEPT !.i = @ + 1,
                       !.merged[Len(m.merged)] = prev \o <<" ">> \o line]
        ELSE [m EXCEPT !.i = @ + 1, !.merged = Append(@, line)]

MaxLines == 3

\* A lowercase line of n code units, in words of five letters.
LowerLine(n) == [k \in 1..n |-> IF k % 6 = 0 THEN " " ELSE "a"]

\* The lines a section is made of: blank ones, lines that end with a listed
\* word or only with its letters, lowercase and uppercase starts, white
\* space around and inside, and lowercase lines of 29 and of 30 code units.
RawLines ==
    {<<>>,
     <<" ", "\t">>,
     <<"R", "i", "s", " ", "m", "e", "d">>,
     <<" ", "s", "a", "u", "s", " ", " ", "o", "g", "\t">>,
     <<"S", "a", "l", "a", "t">>,
     <<"K", "å", "l", " ", "p", "å">>,
     <<"ø", "r", "r", "e", "t">>,
     <<"F", "i", "s", "k", " ", "I">>,
     <<"B", "r", "a", "n", "d">>,
     LowerLine(MergeMaxLength - 1),
     LowerLine(MergeMaxLength)}

RECURSIVE SeqsUpTo(_, _)
SeqsUpTo(S, n) ==
    IF n = 0 THEN {<<>>}
    ELSE LET shorter == SeqsUpTo(S, n - 1)
         IN  shorter \cup {Append(q, x) : q \in shorter, x \in S}

InitMerge ==
    /\ merge \in {[rawItems |-> q, i |-> 0, merged |-> <<>>,
                   returned |-> FALSE] : q \in SeqsUpTo(RawLines, MaxLines)}
    /\ PipeIdle
    /\ MainIdle
    /\ GreyIdle
    /\ ConcIdle
    /\ WalkIdle
    /\ UpdIdle
    /\ RevIdle
    /\ JobIdle

mergeFrame == <<pipeVars, mainVars, greyVars, concVars, walk, upd, rev, job>>

\* for (let i = 0; i < rawItems.length; i++) { ... }
MergeLine ==
    /\ merge # <<>>
    /\ ~merge.returned
    /\ merge.i < Len(merge.rawItems)
    /\ merge' = MergeIteration(merge)
    /\ UNCHANGED mergeFrame

\* return merged.
MergeReturn ==
    /\ merge # <<>>
    /\ ~merge.returned
    /\ merge.i >= Len(merge.rawItems)
    /\ merge' = [merge EXCEPT !.returned = TRUE]
    /\ UNCHANGED mergeFrame

NextMerge == MergeLine \/ MergeReturn

SpecMerge == InitMerge /\ [][NextMerge]_vars

\* The words and letters the merge rule is stated with.
ListedWords ==
    {<<"m", "e", "d">>, <<"o", "g">>, <<"w", "i", "t", "h">>,
     <<"a", "n", "d">>, <<"i", "n">>, <<"p", "å">>, <<"i">>,
     <<"o", "v", "e", "r">>, <<"u", "n", "d", "e", "r">>, <<"t", "i", "l">>,
     <<"f", "r", "a">>, <<"a", "v">>, <<"u", "t", "e", "n">>,
     <<"m", "a", "s", "h", "e", "d">>}

LowercaseLetters == {AsciiLower[k] : k \in 1..26} \cup {"æ", "ø", "å"}

\* The line the for loop is at, trimmed.
MergeCurrent == Trim(merge.rawItems[merge.i + 1])

\* ---------------------------------------------------------------------------
\* C21 as stated: a non-blank line is appended, after one space, to the last
\* output item iff there is one and it ends with a listed word or the line
\* starts with a lowercase letter and has fewer than 30 characters; any other
\* non-blank line starts a new item.
C21_MergeRule ==
    [][(merge # <<>> /\ merge.i < Len(merge.rawItems)
            /\ MergeCurrent # <<>>) =>
          LET n == Len(merge.merged)
              appended ==
                  /\ n > 0
                  /\ \/ EndsWithAny(ListedWords, merge.merged[n])
                     \/ /\ StartsWithIn(LowercaseLetters, MergeCurrent)
                        /\ Len(MergeCurrent) < 30
          IN  merge'.merged =
                  IF appended
                  THEN [merge.merged EXCEPT
                           ![n] = @ \o <<" ">> \o MergeCurrent]
                  ELSE Append(merge.merged, MergeCurrent)]_vars

\* The words of a string: its maximal runs of code units that are not white
\* space, in order.
RECURSIVE WordsFrom(_, _, _)
WordsFrom(s, word, found) ==
    IF s = <<>>
    THEN IF word = <<>> THEN found ELSE Append(found, word)
    ELSE IF Head(s) \in WhiteSpace
    THEN WordsFrom(Tail(s), <<>>,
                   IF word = <<>> THEN found ELSE Append(found, word))
    ELSE WordsFrom(Tail(s), Append(word, Head(s)), found)

WordsOf(s) == WordsFrom(s, <<>>, <<>>)

\* The words of a list of strings, in order.
RECURSIVE WordsOfAll(_)
WordsOfAll(q) ==
    IF q = <<>> THEN <<>> ELSE WordsOf(Head(q)) \o WordsOfAll(Tail(q))

IsBlank(s) == \A k \in 1..Len(s) : s[k] \in WhiteSpace

\* ---------------------------------------------------------------------------
\* C22: mergeItems drops the blank lines and trims the others: no output item
\* is empty or starts or ends with white space, and the words of the output
\* items are the words of the lines read so far, in the same order.
C22_WordsPreserved ==
    merge # <<>> =>
        /\ \A n \in 1..Len(merge.merged) :
              LET item == merge.merged[n]
              IN  /\ item # <<>>
                  /\ item[1] \notin WhiteSpace
                  /\ item[Len(item)] \notin WhiteSpace
        /\ WordsOfAll(merge.merged)
             = WordsOfAll(SubSeq(merge.rawItems, 1, merge.i))
        /\ (\A n \in 1..merge.i : IsBlank(merge.rawItems[n]))
             => merge.merged = <<>>

\* mergeItems has returned; it was given a blank line, a line with white
\* space around it and a line it appended to the item before.
C22_Witness ==
    /\ merge # <<>>
    /\ merge.returned
    /\ \E n \in 1..Len(merge.rawItems) : IsBlank(merge.rawItems[n])
    /\ \E n \in 1..Len(merge.rawItems) :
          /\ ~IsBlank(merge.rawItems[n])
          /\ Trim(merge.rawItems[n]) # merge.rawItems[n]
    /\ Len(merge.merged) = 1
    /\ Len(WordsOf(merge.merged[1])) >= 4

\* ---------------------------------------------------------------------------
\* review-images.js: the review loop
\* ---------------------------------------------------------------------------
MAX_RETRIES == 2

MaxImages == 2

\* What the await of reviewImage can give: the reviewer's verdict, or the
\* catch block's { passed: true }.
Verdicts == {"PASS", "FAIL", "ERROR"}

\* review.passed.
ReviewPassed(v) == v # "FAIL"

\* Mutant: the retry test lets attempt MAX_RETRIES regenerate too.
RetriesLeft_Inclusive(attempt) == attempt <= MAX_RETRIES

\* if (attempt < MAX_RETRIES).
RetriesLeft(attempt) == attempt < MAX_RETRIES

\* main is entered: the (day, canteen) pairs that have a main dish, each with
\* or without a background-removed image on disk.  trails holds, per pair,
\* what was done to it, in order.
InitRev ==
    /\ rev \in {[pc |-> "pick", hasCutout |-> q, img |-> 0, attempt |-> 0,
                 cutoutVersion |-> 0,
                 trails |-> [n \in 1..Len(q) |-> <<>>],
                 totalReviewed |-> 0, totalPassed |-> 0,
                 totalRegenerated |-> 0] :
                   q \in SeqsUpTo(BOOLEAN, MaxImages)}
    /\ PipeIdle
    /\ MainIdle
    /\ GreyIdle
    /\ ConcIdle
    /\ WalkIdle
    /\ MergeIdle
    /\ UpdIdle
    /\ JobIdle

revFrame == <<pipeVars, mainVars, greyVars, concVars, walk, merge, upd, job>>

\* The loops over days and canteens reach a pair without an image: continue.
RevSkip ==
    /\ rev # <<>>
    /\ rev.pc = "pick"
    /\ rev.img < Len(rev.hasCutout)
    /\ ~rev.hasCutout[rev.img + 1]
    /\ rev' = [rev EXCEPT !.img = @ + 1]
    /\ UNCHANGED revFrame

\* ... a pair with an image: totalReviewed++, attempt = 0.
RevStart ==
    /\ rev # <<>>
    /\ rev.pc = "pick"
    /\ rev.img < Len(rev.hasCutout)
    /\ rev.hasCutout[rev.img + 1]
    /\ rev' = [rev EXCEPT !.pc = "review", !.attempt = 0,
                          !.totalReviewed = @ + 1]
    /\ UNCHANGED revFrame

\* The loop test attempt <= MAX_RETRIES holds and the await of reviewImage
\* returns: break on a pass, regenerate while retries are left, and keep the
\* last version otherwise.
RevReview ==
    /\ rev # <<>>
    /\ rev.pc = "review"
    /\ rev.attempt <= MAX_RETRIES
    /\ \E v \in Verdicts :
          LET seen == [rev EXCEPT !.trails[rev.img + 1] = Append(@, v)]
          IN  IF ReviewPassed(v)
              THEN rev' = [seen EXCEPT !.pc = "pick", !.img = @ + 1,
                                       !.totalPassed = @ + 1]
              ELSE IF RetriesLeft(rev.attempt)
              THEN rev' = [seen EXCEPT !.pc = "regenerate",
                                       !.totalRegenerated = @ + 1]
              ELSE rev' = [seen EXCEPT !.attempt = @ + 1,
                                       !.totalPassed = @ + 1]
    /\ UNCHANGED revFrame

\* The await of generateImage returns a buffer or null; a buffer is written
\* and removeBackground is run on it, which replaces the image or fails.
RevRegenerate ==
    /\ rev # <<>>
    /\ rev.pc = "regenerate"
    /\ \E replaced \in BOOLEAN :
          rev' = [rev EXCEPT
                     !.pc = "delay",
                     !.trails[rev.img + 1] = Append(@, "REGEN"),
                     !.cutoutVersion = IF replaced THEN 1 - @ ELSE @]
    /\ UNCHANGED revFrame

\* The await of the 2000 ms timer returns: attempt++.
RevDelay ==
    /\ rev # <<>>
    /\ rev.pc = "delay"
    /\ rev' = [rev EXCEPT !.pc = "review", !.attempt = @ + 1]
    /\ UNCHANGED revFrame

\* The loop test attempt <= MAX_RETRIES fails: the next pair.
RevGiveUp ==
    /\ rev # <<>>
    /\ rev.pc = "review"
    /\ rev.attempt > MAX_RETRIES
    /\ rev' = [rev EXCEPT !.pc = "pick", !.img = @ + 1]
    /\ UNCHANGED revFrame

\* The loops end: the results are printed.
RevEnd ==
    /\ rev # <<>>
    /\ rev.pc = "pick"
    /\ rev.img >= Len(rev.hasCutout)
    /\ rev' = [rev EXCEPT !.pc = "done"]
    /\ UNCHANGED revFrame

NextRev ==
    \/ RevSkip
    \/ RevStart
    \/ RevReview
    \/ RevRegenerate
    \/ RevDelay
    \/ RevGiveUp
    \/ RevEnd

SpecRev == InitRev /\ [][NextRev]_vars

\* main is one async function: each await returns and the code after it runs.
SpecRevFair == SpecRev /\ WF_vars(NextRev)

\* How often x occurs in a trail.
Count(t, x) == Cardinality({k \in 1..Len(t) : t[k] = x})

\* ---------------------------------------------------------------------------
\* C24: per image the reviewer is called at most 3 times and the image is
\* regenerated at most 2 times; a regeneration directly follows a FAIL, a
\* PASS or a reviewer error ends the work on the image, and the loop over
\* the images ends.
C24_TrailBounded ==
    /\ \A n \in 1..Len(rev.trails) :
          LET t == rev.trails[n]
          IN  /\ Len(t) - Count(t, "REGEN") <= 3
              /\ Count(t, "REGEN") <= 2
              /\ \A k \in 1..Len(t) :
                    /\ t[k] = "REGEN" => k > 1 /\ t[k - 1] = "FAIL"
                    /\ t[k] \in {"PASS", "ERROR"} => k = Len(t)
              /\ n > rev.img + 1 => t = <<>>
              /\ ~rev.hasCutout[n] => t = <<>>
    /\ rev.totalRegenerated <= 2 * rev.totalReviewed

C24_ReviewBounded ==
    /\ [](rev # <<>> => C24_TrailBounded)
    /\ <>(rev # <<>> /\ rev.pc = "done")

\* The review has ended: one image passed at once, another failed three
\* times and was regenerated twice.
C24_Witness ==
    /\ rev # <<>>
    /\ rev.pc = "done"
    /\ \E n \in 1..Len(rev.trails) : rev.trails[n] = <<"PASS">>
    /\ \E n \in 1..Len(rev.trails) :
          rev.trails[n] = <<"FAIL", "REGEN", "FAIL", "REGEN", "FAIL">>

\* ---------------------------------------------------------------------------
\* The jobs that call the image generator: smart-update.js,
\* generate-images-v3.js and scraper.js
\* ---------------------------------------------------------------------------
DAY_ORDER == <<"monday", "tuesday", "wednesday", "thursday", "friday">>

\* d.day.toLowerCase(), on the day names scrapeCanteen writes.
DayToLower(d) ==
    CASE d = "Monday" -> "monday"
      [] d = "Tuesday" -> "tuesday"
      [] OTHER -> d

\* null.
Null == "null"

\* entry.en or entry.no: undefined, or an object with a list of items.
NoItems == [has |-> FALSE, items |-> <<>>]

Items(q) == [has |-> TRUE, items |-> q]

Main(dish) == [dish |-> dish, isMain |-> TRUE]

Side(dish) == [dish |-> dish, isMain |-> FALSE]

\* The entries of one canteen's menu that are explored: Monday with an
\* English main dish after a side dish, with another English main dish, with
\* Norwegian items only, or with an empty English list next to Norwegian
\* items; Tuesday with an English main dish.
MondayEntries ==
    {[day |-> "Monday", en |-> Items(<<Side("soup"), Main("cod")>>),
      no |-> Items(<<Main("torsk")>>)],
     [day |-> "Monday", en |-> Items(<<Main("stew")>>), no |-> NoItems],
     [day |-> "Monday", en |-> NoItems, no |-> Items(<<Main("torsk")>>)],
     [day |-> "Monday", en |-> Items(<<>>), no |-> Items(<<Main("torsk")>>)]}

TuesdayEntries ==
    {[day |-> "Tuesday", en |-> Items(<<Main("cod")>>), no |-> NoItems]}

Weeks == {"Uke 1", "Uke 2"}

\* The key scraper.js stores a canteen under (displayName) and the name it
\* looks it up with (name), lines 10 to 14.
CANTEENS ==
    <<[name |-> "The Hub", displayName |-> "Eat the street"],
      [name |-> "Telenor Expo", displayName |-> "Fresh4you"],
      [name |-> "Bygg B", displayName |-> "Flow"]>>

\* What scraper.js writes to menu.json: the canteen Flow, if its scrape did
\* not throw, with a week and a menu.
ScrapedMenus ==
    {[exists |-> TRUE, canteens |-> <<>>]}
    \cup
    {[exists |-> TRUE,
      canteens |-> <<[name |-> CANTEENS[3].displayName, week |-> w,
                      menu |-> mon \o tue]>>] :
        w \in Weeks,
        mon \in {<<>>} \cup {<<e>> : e \in MondayEntries},
        tue \in {<<>>} \cup {<<e>> : e \in TuesdayEntries}}

\* No menu.json.
NoMenuFile == [exists |-> FALSE, canteens |-> <<>>]

\* menu.canteens[name]: the positions of the entries with that key.
Lookup(menu, name) ==
    {k \in 1..Len(menu.canteens) : menu.canteens[k].name = name}

\* canteen.menu.find(d => d.day.toLowerCase() === day): its position, or 0.
FindEntry(menu, day) ==
    LET found == {k \in 1..Len(menu) : DayToLower(menu[k].day) = day}
    IN  IF found = {} THEN 0
        ELSE CHOOSE k \in found : \A n \in found : k <= n

\* items.find(i => i.isMain): its position, or 0.
FindMain(items) ==
    LET found == {k \in 1..Len(items) : items[k].isMain}
    IN  IF found = {} THEN 0
        ELSE CHOOSE k \in found : \A n \in found : k <= n

\* entry?.en?.items || entry?.no?.items || []: a list, even an empty one, is
\* truthy.
EntryItems(menu, day) ==
    LET k == FindEntry(menu, day)
    IN  IF k = 0 THEN <<>>
        ELSE IF menu[k].en.has THEN menu[k].en.items
        ELSE IF menu[k].no.has THEN menu[k].no.items
        ELSE <<>>

\* getMainDishes(canteenData)[day].
getMainDishes(canteenData, day) ==
    LET items == EntryItems(canteenData.menu, day)
    IN  IF FindMain(items) = 0 THEN Null ELSE items[FindMain(items)].dish

\* The main dish of a canteen that is not in the old menu (lines 46 to 52):
\* entry?.en?.items || [].
NewCanteenMain(canteenData, day) ==
    LET k == FindEntry(canteenData.menu, day)
        items == IF k # 0 /\ canteenData.menu[k].en.has
                 THEN canteenData.menu[k].en.items ELSE <<>>
    IN  IF FindMain(items) = 0 THEN Null ELSE items[FindMain(items)].dish

\* Mutant: a missing image is no reason to regenerate.
NeedsRegeneration_NoImageTest(oldDish, newDish, weekChanged, imageExists) ==
    oldDish # newDish \/ weekChanged

\* if (oldDish !== newDish || weekChanged || !imageExists).
NeedsRegeneration(oldDish, newDish, weekChanged, imageExists) ==
    oldDish # newDish \/ weekChanged \/ ~imageExists

\* The changes findChanges pushes for one canteen of the new menu, in the
\* order of DAY_ORDER.  cutout[day] is what images_nobg/<day>/<slug>.png
\* shows, Null when there is no such file.
CanteenChanges(oldMenu, newCanteen, cutout) ==
    LET old == Lookup(oldMenu, newCanteen.name)
        oldCanteen == oldMenu.canteens[CHOOSE k \in old : TRUE]
        listed(day) ==
            IF old = {}
            THEN NewCanteenMain(newCanteen, day) # Null
            ELSE /\ getMainDishes(newCanteen, day) # Null
                 /\ NeedsRegeneration(getMainDishes(oldCanteen, day),
                                      getMainDishes(newCanteen, day),
                                      oldCanteen.week # newCanteen.week,
                                      cutout[day] # Null)
        change(day) ==
            [canteenName |-> newCanteen.name, day |-> day,
             oldDish |-> IF old = {} THEN Null
                         ELSE getMainDishes(oldCanteen, day),
             newDish |-> IF old = {} THEN NewCanteenMain(newCanteen, day)
                         ELSE getMainDishes(newCanteen, day)]
        listedDays == SelectSeq(DAY_ORDER, listed)
    IN  [k \in 1..Len(listedDays) |-> change(listedDays[k])]

RECURSIVE ChangesFrom(_, _, _, _)
ChangesFrom(k, oldMenu, newMenu, cutout) ==
    IF k > Len(newMenu.canteens) THEN <<>>
    ELSE CanteenChanges(oldMenu, newMenu.canteens[k], cutout)
         \o ChangesFrom(k + 1, oldMenu, newMenu, cutout)

findChanges(oldMenu, newMenu, cutout) == ChangesFrom(1, oldMenu, newMenu, cutout)

\* Mutant: the timer is not awaited.
Delayed_NoTimer(log) == log

\* await new Promise(r => setTimeout(r, 1500)), as an entry of the job's log.
Delayed(log) == Append(log, "delay")

\* The canteens for which scraper.js' main reaches generateFoodImage: those
\* allResults.canteens holds under canteen.name, with a main dish today and
\* no image yet (rawOld holds the <<name, day>> pairs that have one).
ScraperCalls(allResults, today, rawOld) ==
    SelectSeq(CANTEENS,
              LAMBDA c :
                  /\ Lookup(allResults, c.name) # {}
                  /\ LET canteenData ==
                             allResults.canteens[
                                 CHOOSE k \in Lookup(allResults, c.name) :
                                     TRUE]
                     IN  getMainDishes(canteenData, today) # Null
                  /\ <<c.name, today>> \notin rawOld)

MaxRuns == 2

\* The files: menu.json, the days that have a generated image flow.png, the
\* dish each background-removed flow.png shows, and the images scraper.js
\* has written under the canteens' old names.
DiskStates ==
    {[menuFile |-> m, raw |-> r, cutout |-> c, rawOld |-> {}] :
        m \in ScrapedMenus \cup {NoMenuFile},
        r \in SUBSET {"monday", "tuesday"},
        c \in [{DAY_ORDER[k] : k \in 1..5} -> {Null, "cod", "stew", "torsk"}]}

\* A background-removed image shows the main dish of menu.json and was made
\* from a generated image.
DiskConsistent(d) ==
    \A day \in DOMAIN d.cutout :
        d.cutout[day] # Null =>
            /\ day \in d.raw
            /\ d.menuFile.canteens # <<>>
            /\ d.cutout[day] = getMainDishes(d.menuFile.canteens[1], day)

NoJob ==
    [script |-> "none", pc |-> "idle", runs |-> 0, force |-> FALSE,
     oldMenu |-> NoMenuFile, newMenu |-> NoMenuFile, changes |-> <<>>,
     idx |-> 0, failed |-> {}, today |-> Null, log |-> <<>>]

InitJobs ==
    /\ upd \in {d \in DiskStates : DiskConsistent(d)}
    /\ job = NoJob
    /\ PipeIdle
    /\ MainIdle
    /\ GreyIdle
    /\ ConcIdle
    /\ WalkIdle
    /\ MergeIdle
    /\ RevIdle

jobFrame == <<pipeVars, mainVars, greyVars, concVars, walk, merge, rev>>

\* No job is running and one more may be run.
JobFree ==
    /\ job # <<>>
    /\ job.pc \in {"idle", "done", "exit"}
    /\ job.runs < MaxRuns

\* smart-update's main up to its first await: the old menu is loaded,
\* scraper.js is run (it fails, or writes a menu), the changes are found, and
\* main returns when there are none.
SmartStart ==
    /\ JobFree
    /\ \/ /\ job' = [NoJob EXCEPT !.script = "smart", !.pc = "exit",
                                  !.runs = job.runs + 1,
                                  !.oldMenu = upd.menuFile]
          /\ UNCHANGED upd
       \/ \E new \in ScrapedMenus :
             LET changes == findChanges(upd.menuFile, new, upd.cutout)
             IN  /\ job' = [NoJob EXCEPT
                               !.script = "smart",
                               !.pc = IF changes = <<>> THEN "done"
                                      ELSE "generate",
                               !.runs = job.runs + 1,
                               !.oldMenu = upd.menuFile,
                               !.newMenu = new,
                               !.changes = changes]
                 /\ upd' = [upd EXCEPT !.menuFile = new]
    /\ UNCHANGED jobFrame

\* The await of generateSingleImage returns: true after the image was
\* written, false otherwise.
SmartGenerate ==
    /\ job # <<>>
    /\ job.script = "smart"
    /\ job.pc = "generate"
    /\ \E ok \in BOOLEAN :
          LET change == job.changes[job.idx + 1]
          IN  /\ job' = [job EXCEPT
                            !.pc = IF ok THEN "removebg" ELSE "delay",
                            !.log = Append(@, "call"),
                            !.failed = IF ok THEN @
                                       ELSE @ \cup {change.day}]
              /\ upd' = [upd EXCEPT !.raw = IF ok THEN @ \cup {change.day}
                                            ELSE @]
    /\ UNCHANGED jobFrame

\* The await of removeBgSingle returns: true after the background-removed
\* image was written, false otherwise.
SmartRemoveBg ==
    /\ job # <<>>
    /\ job.script = "smart"
    /\ job.pc = "removebg"
    /\ \E bgOk \in BOOLEAN :
          LET change == job.changes[job.idx + 1]
          IN  /\ job' = [job EXCEPT
                            !.pc = "delay",
                            !.failed = IF bgOk THEN @
                                       ELSE @ \cup {change.day}]
              /\ upd' = [upd EXCEPT
                            !.cutout[change.day] =
                                IF bgOk THEN change.newDish ELSE @]
    /\ UNCHANGED jobFrame

\* The await of the 1500 ms timer returns: the next change, if any.
SmartDelay ==
    /\ job # <<>>
    /\ job.script = "smart"
    /\ job.pc = "delay"
    /\ job' = [job EXCEPT !.log = Delayed(@),
                          !.idx = @ + 1,
                          !.pc = IF job.idx + 1 < Len(job.changes)
                                 THEN "generate" ELSE "done"]
    /\ UNCHANGED <<upd, jobFrame>>

\* generate-images-v3.js: the (day, canteen) pair at position idx needs an
\* image: the canteen has a main dish that day, and the image is missing or
\* --force was given.
V3Needs(menu, idx, raw, force) ==
    /\ idx < Len(DAY_ORDER) * Len(menu.canteens)
    /\ LET day == DAY_ORDER[(idx \div Len(menu.canteens)) + 1]
           canteen == menu.canteens[(idx % Len(menu.canteens)) + 1]
       IN  /\ getMainDishes(canteen, day) # Null
           /\ day \notin raw \/ force

\* The day the pair at position idx is of.
V3Day(menu, idx) == DAY_ORDER[(idx \div Len(menu.canteens)) + 1]

\* generate-images-v3.js' main is entered, with or without --force:
\* menu.json is read (main rejects when there is none).
V3Start ==
    /\ JobFree
    /\ \E force \in BOOLEAN :
          job' = [NoJob EXCEPT !.script = "v3",
                               !.pc = IF upd.menuFile.exists THEN "loop"
                                      ELSE "exit",
                               !.runs = job.runs + 1,
                               !.force = force,
                               !.newMenu = upd.menuFile]
    /\ UNCHANGED <<upd, jobFrame>>

\* The loops reach a pair that is skipped (one of the four `continue`s).
V3Skip ==
    /\ job # <<>>
    /\ job.script = "v3"
    /\ job.pc = "loop"
    /\ job.idx < Len(DAY_ORDER) * Len(job.newMenu.canteens)
    /\ ~V3Needs(job.newMenu, job.idx, upd.raw, job.force)
    /\ job' = [job EXCEPT !.idx = @ + 1]
    /\ UNCHANGED <<upd, jobFrame>>

\* The await of generateImage returns a buffer, which is written, or null.
V3Generate ==
    /\ job # <<>>
    /\ job.script = "v3"
    /\ job.pc = "loop"
    /\ V3Needs(job.newMenu, job.idx, upd.raw, job.force)
    /\ \E ok \in BOOLEAN :
          LET day == V3Day(job.newMenu, job.idx)
          IN  /\ job' = [job EXCEPT !.pc = "delay",
                                    !.log = Append(@, "call"),
                                    !.failed = IF ok THEN @ ELSE @ \cup {day}]
              /\ upd' = [upd EXCEPT !.raw = IF ok THEN @ \cup {day} ELSE @]
    /\ UNCHANGED jobFrame

\* The await of the 1500 ms timer returns: the next pair.
V3Delay ==
    /\ job # <<>>
    /\ job.script = "v3"
    /\ job.pc = "delay"
    /\ job' = [job EXCEPT !.pc = "loop", !.log = Delayed(@), !.idx = @ + 1]
    /\ UNCHANGED <<upd, jobFrame>>

\* The loops end: the summary is printed.
V3End ==
    /\ job # <<>>
    /\ job.script = "v3"
    /\ job.pc = "loop"
    /\ job.idx >= Len(DAY_ORDER) * Len(job.newMenu.canteens)
    /\ job' = [job EXCEPT !.pc = "done"]
    /\ UNCHANGED <<upd, jobFrame>>

\* scraper.js' main is entered, on a weekday or at the weekend, and scrapes
\* the canteens.
ScraperScrape ==
    /\ JobFree
    /\ \E today \in {"monday", "tuesday", "friday", Null},
          allResults \in ScrapedMenus :
          job' = [NoJob EXCEPT !.script = "scraper", !.pc = "today",
                               !.runs = job.runs + 1,
                               !.today = today,
                               !.newMenu = allResults]
    /\ UNCHANGED <<upd, jobFrame>>

\* The loop over CANTEENS that generates today's images; no delay separates
\* its calls of generateFoodImage.
ScraperToday ==
    /\ job # <<>>
    /\ job.script = "scraper"
    /\ job.pc = "today"
    /\ \E saved \in BOOLEAN :
          LET called == IF job.today = Null THEN <<>>
                        ELSE ScraperCalls(job.newMenu, job.today, upd.rawOld)
          IN  /\ job' = [job EXCEPT
                            !.pc = "save",
                            !.log = @ \o [k \in 1..Len(called) |-> "call"]]
              /\ upd' = [upd EXCEPT
                            !.rawOld =
                                IF saved
                                THEN @ \cup {<<called[k].name, job.today>> :
                                                k \in 1..Len(called)}
                                ELSE @]
    /\ UNCHANGED jobFrame

\* fs.writeFileSync(outputPath, JSON.stringify(allResults)).
ScraperSave ==
    /\ job # <<>>
    /\ job.script = "scraper"
    /\ job.pc = "save"
    /\ job' = [job EXCEPT !.pc = "done"]
    /\ upd' = [upd EXCEPT !.menuFile = job.newMenu]
    /\ UNCHANGED jobFrame

NextJobs ==
    \/ SmartStart
    \/ SmartGenerate
    \/ SmartRemoveBg
    \/ SmartDelay
    \/ V3Start
    \/ V3Skip
    \/ V3Generate
    \/ V3Delay
    \/ V3End
    \/ ScraperScrape
    \/ ScraperToday
    \/ ScraperSave

SpecJobs == InitJobs /\ [][NextJobs]_vars

\* A run of smart-update starts and its scrape succeeds.
SmartScraped ==
    /\ JobFree
    /\ job'.script = "smart"
    /\ job'.pc # "exit"

\* The days findChanges has listed.
ListedDays(changes) == {changes[k].day : k \in 1..Len(changes)}

\* ---------------------------------------------------------------------------
\* C23: for a canteen of both menus findChanges lists a day iff the new menu
\* has a main dish that day and the old main dish differs, the week differs
\* or the background-removed image is missing; with no change listed
\* smart-update returns without a generation call.
C23_ChangesRule ==
    [][(SmartScraped /\ job'.newMenu.canteens # <<>>
            /\ Lookup(upd.menuFile, job'.newMenu.canteens[1].name) # {}) =>
          LET old == upd.menuFile.canteens[1]
              new == job'.newMenu.canteens[1]
          IN  /\ \A k \in 1..Len(DAY_ORDER) :
                    LET day == DAY_ORDER[k]
                        oldDish == getMainDishes(old, day)
                        newDish == getMainDishes(new, day)
                    IN  day \in ListedDays(job'.changes)
                        <=> /\ newDish # Null
                            /\ \/ oldDish # newDish
                               \/ old.week # new.week
                               \/ upd.cutout[day] = Null
              /\ job'.changes = <<>> =>
                    job'.pc = "done" /\ Count(job'.log, "call") = 0]_vars

\* smart-update has scraped the menu it had before and lists a day only
\* because its background-removed image is missing, while the other day, with
\* an image, is not listed.
C23_Witness ==
    /\ job # <<>>
    /\ job.script = "smart"
    /\ job.pc = "generate"
    /\ job.idx = 0
    /\ job.oldMenu = job.newMenu
    /\ ListedDays(job.changes) = {"tuesday"}
    /\ upd.cutout["monday"] # Null

C27_NewCanteenAllMainDays ==
    [][(SmartScraped /\ job'.newMenu.canteens # <<>>
            /\ Lookup(upd.menuFile, job'.newMenu.canteens[1].name) = {}) =>
          \A k \in 1..Len(DAY_ORDER) :
              DAY_ORDER[k] \in ListedDays(job'.changes)
              <=> getMainDishes(job'.newMenu.canteens[1], DAY_ORDER[k]) # Null
       ]_vars

\* ---------------------------------------------------------------------------
\* C28 as stated: a day whose regeneration failed in a run of smart-update
\* is listed again by the next run when that run scrapes the same menu.
C28_FailedListedAgain ==
    [][(SmartScraped /\ job.script = "smart"
            /\ job'.newMenu = upd.menuFile) =>
          job.failed \subseteq ListedDays(job'.changes)]_vars

\* ---------------------------------------------------------------------------
\* C29 as stated: the total removeBackground reports, removedPixels +
\* extraRemoved + shadowCleaned, is the number of background pixels of the
\* final mask, so it never exceeds width x height (percentRemoved <= 100).
C29_RemovalTotalIsMaskSize ==
    (pc = "done" /\ result.success) =>
        /\ result.allRemoved =
              Cardinality({i \in Pixels : isBackground[i] = 1})
        /\ result.allRemoved <= width * height
        /\ 100 * result.allRemoved <= 100 * result.totalPixels

====
